---- MODULE Spec2Model ----
(***************************************************************************)
(* A model of the module-resolution hook (createResolveFilename,           *)
(* resolveTsPaths), the directory-scoped tsconfig paths matcher            *)
(* (createDynamicPathsMatcher, loadTsconfig) and the const-enum extractor  *)
(* and inliner (parseConstEnumsFromAST, transformConstEnum) of tsx, and   *)
(* of the line delivery of its test utility ptyShell.                      *)
(***************************************************************************)
EXTENDS Integers, Sequences, FiniteSets, TLC

VARIABLES
    tsAt,                  \* the tsconfig.json found in each directory (static)
    files,                 \* the specifiers the host resolver can resolve (static)
    fileMatcher,           \* tsconfig.ts: export let fileMatcher
    tsconfigPathsMatcher,  \* tsconfig.ts: export let tsconfigPathsMatcher
    allowJs,               \* tsconfig.ts: export let allowJs
    tsconfigCache,         \* tsconfig.ts: const tsconfigCache (by directory)
    last,                  \* the last call of the hook: inputs, calls made, outcome
    enumFs,                \* the declaring files on disk, by path (static)
    constEnumCache,        \* const-enum-transformer.ts: const constEnumCache (by path)
    elast,                 \* the last call of the extractor or the inliner
    enumCache,             \* const-enum.ts: const enumCache (by path)
    lookups,               \* the calls of getEnumsFromTypeFile in flight, by caller
    pty                    \* pty-shell: the child's stdout and the state of ptyShell

resolutionVars ==
    <<tsAt, files, fileMatcher, tsconfigPathsMatcher, allowJs, tsconfigCache, last>>
enumVars == <<enumFs, constEnumCache, elast>>
asyncVars == <<enumCache, lookups>>
ptyVars == <<pty>>
vars == <<resolutionVars, enumVars, asyncVars, ptyVars>>

(***************************************************************************)
(* Paths are sequences of segments; the root directory is <<>>.            *)
(***************************************************************************)
Root == <<>>
DirA == <<"A">>
DirB == <<"A", "B">>
DirBSrc == <<"A", "B", "src">>
DirDep == <<"A", "node_modules", "dep">>

\* path.dirname: the root is its own parent
Dirname(p) == IF Len(p) = 0 THEN p ELSE SubSeq(p, 1, Len(p) - 1)

\* the requesting modules (parent.filename); HasFile = FALSE is an absent parent
NoParent == [has |-> FALSE, filename |-> <<>>]
Parent(f) == [has |-> TRUE, filename |-> f]
FileATs == <<"A", "main.ts">>
FileAJs == <<"A", "run.js">>
FileBTs == <<"A", "B", "src", "g.ts">>
FileDep == <<"A", "node_modules", "dep", "i.ts">>
\* a file in the root directory
FileTop == <<"top.ts">>
Parents == {NoParent, Parent(FileATs), Parent(FileAJs), Parent(FileBTs), Parent(FileDep)}

\* path-utils: tsExtensionsPattern.test(filename)
TsFileNames == {"main.ts", "g.ts", "i.ts"}
IsTsFile(f) == Len(f) > 0 /\ f[Len(f)] \in TsFileNames

\* path-utils: filename.includes(nodeModulesPath), a node_modules directory segment
InNodeModules(f) == \E i \in 1..(Len(f) - 1) : f[i] = "node_modules"

(***************************************************************************)
(* Specifiers: the request string, split into the parts the code reads.    *)
(* kind "bare" | "rel" | "abs" | "url" (file://) | "interop"; query is the *)
(* text after "?", "" when there is none.                                  *)
(***************************************************************************)
Sp(k, d, n, e, q) == [kind |-> k, dir |-> d, name |-> n, ext |-> e, query |-> q]

ReqAliasA == Sp("bare", <<"@a">>, "x", "", "")
ReqAliasB == Sp("bare", <<"@b">>, "x", "", "")
ReqPkg == Sp("bare", <<>>, "pkg", "", "")
ReqRel == Sp("rel", <<".">>, "m", "", "")
ReqRelJs == Sp("rel", <<".">>, "m", ".js", "")
ReqUrl == Sp("url", <<"A", "src">>, "x", ".ts", "")
ReqInterop == Sp("interop", <<"A", "src">>, "x", ".ts", "")

Queries == {"", "raw", "namespace=n1"}
WithQuery(s, q) == [s EXCEPT !.query = q]

Requests ==
    {ReqAliasA, ReqAliasB, ReqPkg, ReqRel, ReqRelJs, ReqUrl, ReqInterop,
     WithQuery(ReqAliasA, "raw"), WithQuery(ReqRel, "raw"), WithQuery(ReqPkg, "raw"),
     WithQuery(ReqRel, "namespace=n1")}

\* files the host resolver may find
FileA1 == Sp("abs", <<"A", "src">>, "x", ".ts", "")
FileA2 == Sp("abs", <<"A", "lib">>, "x", ".ts", "")
FileB1 == Sp("abs", <<"A", "B", "src">>, "x", ".ts", "")
FileRelTs == Sp("rel", <<".">>, "m", ".ts", "")
FileRelJs == Sp("rel", <<".">>, "m", ".js", "")
FileUniverse == {FileA1, FileA2, FileB1, FileRelTs, FileRelJs}
\* an installed package, always there
Installed == {ReqPkg}

(***************************************************************************)
(* Project configuration files and the matchers get-tsconfig builds from   *)
(* them.  A directory holds no tsconfig.json ("none"), one that cannot be   *)
(* accessed ("denied"), one that does not parse ("bad"), one without       *)
(* compilerOptions.paths ("nopaths"), or one of two paths mappings: "pa"   *)
(* is {"@a/*": ["./src/*", "./lib/*"]} and "pb" is {"@b/*": ["./src/*"]},  *)
(* both relative to the file's directory.                                  *)
(***************************************************************************)
ConfigKinds == {"none", "denied", "bad", "nopaths", "pa", "pb"}

TsKindAt(dir) == IF dir \in DOMAIN tsAt THEN tsAt[dir] ELSE "none"

\* accessSync(potentialConfig) returns; it throws for a file that is not
\* there and for one that cannot be accessed
AccessSync(dir) == TsKindAt(dir) \notin {"none", "denied"}

\* parseTsconfig(tsconfigPath) returns
ParseTsconfig(dir) == TsKindAt(dir) \notin {"none", "denied", "bad"}

PathsOf(kind) ==
    CASE kind = "pa" -> <<[prefix |-> "@a", targets |-> <<"src", "lib">>]>>
      [] kind = "pb" -> <<[prefix |-> "@b", targets |-> <<"src">>]>>
      [] OTHER -> <<>>

CfgAllowJs(kind) == kind = "pb"

\* a matcher is the configuration it was created from; def = FALSE is null/undefined
NoMatcher == [def |-> FALSE, base |-> <<>>, kind |-> "none"]
Matcher(dir, kind) == [def |-> TRUE, base |-> dir, kind |-> kind]

\* get-tsconfig createPathsMatcher: null when the configuration maps no paths
CreatePathsMatcher(dir, kind) ==
    IF Len(PathsOf(kind)) = 0 THEN NoMatcher ELSE Matcher(dir, kind)

\* get-tsconfig createFilesMatcher
CreateFilesMatcher(dir, kind) == Matcher(dir, kind)

\* the matcher applied to a specifier: the substitutions of the first pattern
\* whose prefix the specifier starts with, in the order the file lists them;
\* what follows the prefix is copied into each candidate
ApplyPaths(m, s) ==
    LET ps == PathsOf(m.kind)
        hit == {i \in 1..Len(ps) : s.kind = "bare" /\ s.dir = <<ps[i].prefix>>}
    IN  IF ~m.def \/ hit = {} THEN <<>>
        ELSE LET e == ps[CHOOSE i \in hit : \A j \in hit : i <= j]
             IN  [k \in 1..Len(e.targets) |->
                    Sp("abs", m.base \o <<e.targets[k]>>, s.name, s.ext, s.query)]

\* the entry stored for dir and for every directory above it
CacheSetAbove(cache, dir, entry) ==
    [d \in DOMAIN cache \cup {SubSeq(dir, 1, n) : n \in 1..Len(dir)} |->
        IF Len(d) <= Len(dir) /\ SubSeq(dir, 1, Len(d)) = d THEN entry ELSE cache[d]]

\* tsconfigCache.set(dir, entry)
CacheSet(cache, dir, entry) ==
    [d \in DOMAIN cache \cup {dir} |-> IF d = dir THEN entry ELSE cache[d]]

NullEntry == [paths |-> NoMatcher, allowJs |-> FALSE]

\* the walk going on past a configuration it found, to the outermost one
RECURSIVE FindOutermost(_, _)
FindOutermost(currentDir, probes) ==
    IF currentDir = Dirname(currentDir)
    THEN [found |-> FALSE, dir |-> currentDir, probes |-> probes]
    ELSE LET up == FindOutermost(Dirname(currentDir), Append(probes, currentDir))
         IN  IF up.found \/ ~AccessSync(currentDir) THEN up
             ELSE [found |-> TRUE, dir |-> currentDir, probes |-> Append(probes, currentDir)]

\* the walk probing the root as well
RECURSIVE FindNearestProbingRoot(_, _)
FindNearestProbingRoot(currentDir, probes) ==
    IF AccessSync(currentDir)
    THEN [found |-> TRUE, dir |-> currentDir, probes |-> Append(probes, currentDir)]
    ELSE IF currentDir = Dirname(currentDir)
    THEN [found |-> FALSE, dir |-> currentDir, probes |-> Append(probes, currentDir)]
    ELSE FindNearestProbingRoot(Dirname(currentDir), Append(probes, currentDir))

\* the while loop of the dynamic matcher: probe dir, then its parents, never
\* the root; probes lists the directories whose tsconfig.json was accessed
RECURSIVE FindNearest(_, _)
FindNearest(currentDir, probes) ==
    IF currentDir = Dirname(currentDir)
    THEN [found |-> FALSE, dir |-> currentDir, probes |-> probes]
    ELSE IF AccessSync(currentDir)
         THEN [found |-> TRUE, dir |-> currentDir, probes |-> Append(probes, currentDir)]
         ELSE FindNearest(Dirname(currentDir), Append(probes, currentDir))

\* x bound to the value of v in F: a local result used more than once
Bind(v, F(_)) == CHOOSE y \in {F(x) : x \in {v}} : TRUE

\* what the dynamic matcher returns or throws, the cache it leaves, the
\* directories it probed with accessSync and the configurations it parsed
Dynamic(threw, paths, cache, probes, parsed) ==
    [threw |-> threw, paths |-> paths, cache |-> cache, probes |-> probes, parsed |-> parsed]

\* the search going on upward from a configuration that maps no paths
RECURSIVE DynamicLoadUpward(_, _, _, _, _)
DynamicLoadUpward(specifier, searchDir, cache, dir, probes) ==
    IF ~ParseTsconfig(dir)
    THEN Dynamic(FALSE, <<>>, CacheSet(cache, searchDir, NullEntry), probes, <<dir>>)
    ELSE Bind(CreatePathsMatcher(dir, TsKindAt(dir)), LAMBDA pathsMatcher :
            IF pathsMatcher.def
            THEN Dynamic(FALSE, ApplyPaths(pathsMatcher, specifier),
                         CacheSet(cache, searchDir,
                                  [paths |-> pathsMatcher,
                                   allowJs |-> CfgAllowJs(TsKindAt(dir))]),
                         probes, <<dir>>)
            ELSE Bind(FindNearest(Dirname(dir), probes), LAMBDA w :
                    IF ~w.found
                    THEN Dynamic(FALSE, <<>>, CacheSet(cache, searchDir, NullEntry),
                                 w.probes, <<dir>>)
                    ELSE DynamicLoadUpward(specifier, searchDir, cache, w.dir, w.probes)))

\* the try block parsing the configuration found in dir, and its catch
DynamicLoad(specifier, searchDir, cache, dir, probes) ==
    IF ~ParseTsconfig(dir)
    THEN Dynamic(FALSE, <<>>, CacheSet(cache, searchDir, NullEntry), probes, <<dir>>)
    ELSE Bind(CreatePathsMatcher(dir, TsKindAt(dir)), LAMBDA pathsMatcher :
            IF pathsMatcher.def
            THEN Dynamic(FALSE, ApplyPaths(pathsMatcher, specifier),
                         CacheSet(cache, searchDir,
                                  [paths |-> pathsMatcher,
                                   allowJs |-> CfgAllowJs(TsKindAt(dir))]),
                         probes, <<dir>>)
            ELSE Dynamic(FALSE, <<>>, CacheSet(cache, searchDir, NullEntry), probes,
                         <<dir>>))

\* the miss writing the sentinel for every directory of the walk
DynamicMissAncestors(specifier, searchDir, cache, w) ==
    Dynamic(FALSE, <<>>,
            [d \in DOMAIN cache \cup {w.probes[i] : i \in DOMAIN w.probes} |-> NullEntry],
            w.probes, <<>>)

\* the cache miss of the dynamic matcher, after the walk w from searchDir
DynamicMiss(specifier, searchDir, cache, w) ==
    IF ~w.found
    THEN Dynamic(FALSE, <<>>, CacheSet(cache, searchDir, NullEntry), w.probes, <<>>)
    ELSE DynamicLoad(specifier, searchDir, cache, w.dir, w.probes)

\* the matcher walking on every call
DynamicPathsMatcherNoCache(specifier, from, cache, static) ==
    IF ~from.has \/ Len(from.filename) = 0
    THEN Dynamic(FALSE, ApplyPaths(static, specifier), cache, <<>>, <<>>)
    ELSE DynamicMiss(specifier, Dirname(from.filename), cache,
                     FindNearest(Dirname(from.filename), <<>>))

\* the function createDynamicPathsMatcher returns, applied to (specifier,
\* fromFile) with the cache and the global matcher as they are at the call
DynamicPathsMatcher(specifier, from, cache, static) ==
    IF ~from.has \/ Len(from.filename) = 0
    THEN Dynamic(FALSE, ApplyPaths(static, specifier), cache, <<>>, <<>>)
    ELSE IF Dirname(from.filename) \in DOMAIN cache
    THEN Dynamic(FALSE, ApplyPaths(cache[Dirname(from.filename)].paths, specifier),
                 cache, <<>>, <<>>)
    ELSE Bind(FindNearest(Dirname(from.filename), <<>>), LAMBDA w :
            DynamicMiss(specifier, Dirname(from.filename), cache, w))

\* get-tsconfig getTsconfig(): the nearest tsconfig.json from the working directory up
Cwd == DirA

RECURSIVE GetTsconfig(_)
GetTsconfig(dir) ==
    IF TsKindAt(dir) \notin {"none", "denied"} THEN [found |-> TRUE, dir |-> dir]
    ELSE IF dir = Dirname(dir) THEN [found |-> FALSE, dir |-> dir]
    ELSE GetTsconfig(Dirname(dir))

\* the three exported bindings as loadTsconfig leaves them
Globals(fm, pm, aj) == [fileMatcher |-> fm, tsconfigPathsMatcher |-> pm, allowJs |-> aj]
Loaded(d) ==
    Bind(TsKindAt(d), LAMBDA kind :
        Globals(CreateFilesMatcher(d, kind), CreatePathsMatcher(d, kind), CfgAllowJs(kind)))

\* loadTsconfig with the three assignments moved ahead of the search and the parse
LoadTsconfigClearing(given, dir) ==
    IF given
    THEN IF ~ParseTsconfig(dir)
         THEN [outcome |-> "threw", globals |-> Globals(NoMatcher, NoMatcher, FALSE)]
         ELSE [outcome |-> "loaded", globals |-> Loaded(dir)]
    ELSE Bind(GetTsconfig(Cwd), LAMBDA g :
            IF ~g.found \/ ~ParseTsconfig(g.dir)
            THEN [outcome |-> "silent", globals |-> Globals(NoMatcher, NoMatcher, FALSE)]
            ELSE [outcome |-> "loaded", globals |-> Loaded(g.dir)])

\* loadTsconfig(configPath): the outcome and the three exported bindings after it
LoadTsconfigResult(given, dir) ==
    IF given
    THEN IF ~ParseTsconfig(dir)
         THEN [outcome |-> "threw",
               globals |-> Globals(fileMatcher, tsconfigPathsMatcher, allowJs)]
         ELSE [outcome |-> "loaded", globals |-> Loaded(dir)]
    ELSE Bind(GetTsconfig(Cwd), LAMBDA g :
            IF ~g.found \/ ~ParseTsconfig(g.dir)
            THEN [outcome |-> "silent",
                  globals |-> Globals(fileMatcher, tsconfigPathsMatcher, allowJs)]
            ELSE [outcome |-> "loaded", globals |-> Loaded(g.dir)])

(***************************************************************************)
(* The host resolver and the layered resolver chain.  Every call made      *)
(* while a request is resolved is recorded as an event, in call order:     *)
(* op "dynamic"/"static" (a matcher call, ret its candidates), "chain" (a  *)
(* call of the layered resolver nextResolveSimple) and "host" (a call of   *)
(* the host's own resolver, with the parent and the passthrough args).     *)
(***************************************************************************)
Event(op, req, parent, rest, ok, ret) ==
    [op |-> op, req |-> req, from |-> parent.filename, rest |-> rest, ok |-> ok, ret |-> ret]

NotFound == "MODULE_NOT_FOUND"

\* a result: the resolved path, or the error thrown (its code and the request it names)
Ok(path) == [ok |-> TRUE, val |-> path, code |-> ""]
Err(code, req) == [ok |-> FALSE, val |-> req, code |-> code]

\* the unmodified host resolver: a specifier resolves when the file (or the
\* installed package) it names exists; a query is part of the name it looks up
Host(s) ==
    IF s \in files \cup Installed THEN Ok(s) ELSE Err(NotFound, s)

\* nextResolve(request_, parent, ...restOfArgs)
HostCall(s, parent, rest) ==
    Bind(Host(s), LAMBDA r :
        [res |-> r,
         calls |-> <<Event("host", s, parent, rest, r.ok, IF r.ok THEN <<r.val>> ELSE <<>>)>>])

\* createTsExtensionResolver(next, active): a request ending in .js is tried
\* as its .ts sibling first, then as written
TsExtensionResolve(s, parent, rest, active) ==
    IF active /\ s.ext = ".js"
    THEN Bind(HostCall([s EXCEPT !.ext = ".ts"], parent, rest), LAMBDA t :
            IF t.res.ok \/ t.res.code # NotFound THEN t
            ELSE Bind(HostCall(s, parent, rest), LAMBDA l :
                    [res |-> l.res, calls |-> t.calls \o l.calls]))
    ELSE HostCall(s, parent, rest)

ImplicitExts == <<".ts", ".tsx", "/index.ts">>

\* the implicit resolver's own candidates, probed in order after a not-found
RECURSIVE ProbeImplicit(_, _, _, _, _, _, _)
ProbeImplicit(s, i, parent, rest, active, calls, original) ==
    IF i > Len(ImplicitExts) THEN [res |-> original, calls |-> calls]
    ELSE Bind(TsExtensionResolve([s EXCEPT !.ext = ImplicitExts[i]], parent, rest, active),
              LAMBDA t :
                IF t.res.ok THEN [res |-> t.res, calls |-> calls \o t.calls]
                ELSE ProbeImplicit(s, i + 1, parent, rest, active, calls \o t.calls,
                                   original))

\* the chain's call of s, recorded with its outcome r
ChainRecord(s, parent, rest, r) ==
    [res |-> r.res,
     calls |-> <<Event("chain", s, parent, rest, r.res.ok,
                       IF r.res.ok THEN <<r.res.val>> ELSE <<>>)>> \o r.calls]

\* createImplicitResolver(createTsExtensionResolver(next, active)): the
\* layered chain nextResolveSimple; the original failure is re-thrown when
\* none of its own candidates resolves
Chain(s, parent, rest, active) ==
    Bind(TsExtensionResolve(s, parent, rest, active), LAMBDA first :
        IF first.res.ok \/ first.res.code # NotFound \/ s.ext # ""
        THEN ChainRecord(s, parent, rest, first)
        ELSE Bind(ProbeImplicit(s, 1, parent, rest, active, first.calls, first.res),
                  LAMBDA r : ChainRecord(s, parent, rest, r)))

\* path-utils isFilePath: a relative or an absolute path
IsFilePath(s) == s.kind \in {"rel", "abs"}

\* fileURLToPath for a file:// request
FileURLToPath(s) == IF s.kind = "url" THEN [s EXCEPT !.kind = "abs"] ELSE s

\* the loop running over the candidates from the last to the first
RECURSIVE TryPossiblePathsReversed(_, _, _, _, _, _)
TryPossiblePathsReversed(paths, i, parent, rest, active, calls) ==
    IF i > Len(paths) THEN [found |-> FALSE, res |-> Err("", paths), calls |-> calls]
    ELSE Bind(Chain(paths[Len(paths) + 1 - i], parent, rest, active), LAMBDA c :
            IF c.res.ok THEN [found |-> TRUE, res |-> c.res, calls |-> calls \o c.calls]
            ELSE TryPossiblePathsReversed(paths, i + 1, parent, rest, active,
                                          calls \o c.calls))

\* the loop letting the last candidate's error escape
RECURSIVE TryPossiblePathsThrowing(_, _, _, _, _, _)
TryPossiblePathsThrowing(paths, i, parent, rest, active, calls) ==
    IF i > Len(paths) THEN [found |-> FALSE, res |-> Err("", paths), calls |-> calls]
    ELSE Bind(Chain(paths[i], parent, rest, active), LAMBDA c :
            IF c.res.ok \/ i = Len(paths)
            THEN [found |-> TRUE, res |-> c.res, calls |-> calls \o c.calls]
            ELSE TryPossiblePathsThrowing(paths, i + 1, parent, rest, active,
                                          calls \o c.calls))

\* the for loop of resolveTsPaths over possiblePaths
RECURSIVE TryPossiblePaths(_, _, _, _, _, _)
TryPossiblePaths(paths, i, parent, rest, active, calls) ==
    IF i > Len(paths) THEN [found |-> FALSE, res |-> Err("", paths), calls |-> calls]
    ELSE Bind(Chain(paths[i], parent, rest, active), LAMBDA c :
            IF c.res.ok THEN [found |-> TRUE, res |-> c.res, calls |-> calls \o c.calls]
            ELSE TryPossiblePaths(paths, i + 1, parent, rest, active, calls \o c.calls))

AliasGuardAnyParent(request, parent) == ~IsFilePath(request)

\* whether resolveTsPaths treats the request as a candidate for aliasing
AliasGuard(request, parent) ==
    /\ ~IsFilePath(request)
    /\ ~(parent.has /\ InNodeModules(parent.filename))

UseStaticAlways(possiblePaths, static) == static.def

\* whether the global matcher is consulted after the dynamic one
UseStatic(possiblePaths, static) == Len(possiblePaths) = 0 /\ static.def

\* the outcome of a resolution: the value or the error, the calls made, the cache left
Outcome(res, calls, cache) == [res |-> res, calls |-> calls, cache |-> cache]

\* the last line of resolveTsPaths: nextResolve(request), after the calls made so far
FallThrough(request, parent, rest, active, calls, cache) ==
    Bind(Chain(request, parent, rest, active), LAMBDA o :
        Outcome(o.res, calls \o o.calls, cache))

\* the candidate loop and what follows it, given the candidates and the
\* matcher calls that produced them
AfterMatchers(request, parent, rest, active, possiblePaths, calls, cache) ==
    Bind(TryPossiblePaths(possiblePaths, 1, parent, rest, active, calls), LAMBDA t :
        IF t.found THEN Outcome(t.res, t.calls, cache)
        ELSE FallThrough(request, parent, rest, active, t.calls, cache))

\* the static fallback, given the dynamic matcher's candidates and calls
AfterDynamic(request, parent, rest, active, dynPaths, dynCalls, cache, static) ==
    IF UseStatic(dynPaths, static)
    THEN Bind(ApplyPaths(static, request), LAMBDA st :
            AfterMatchers(request, parent, rest, active, st,
                          dynCalls \o <<Event("static", request, parent, rest, TRUE, st)>>,
                          cache))
    ELSE AfterMatchers(request, parent, rest, active, dynPaths, dynCalls, cache)

\* resolveTsPaths(request, parent, nextResolve)
ResolveTsPaths(request0, parent, rest, active, cache, static) ==
    Bind(FileURLToPath(request0), LAMBDA request :
        IF ~AliasGuard(request, parent)
        THEN FallThrough(request, parent, rest, active, <<>>, cache)
        ELSE IF parent.has /\ Len(parent.filename) > 0
        THEN Bind(DynamicPathsMatcher(request, parent, cache, static), LAMBDA dyn :
                AfterDynamic(request, parent, rest, active, dyn.paths,
                             <<Event("dynamic", request, parent, rest, TRUE, dyn.paths)>>,
                             dyn.cache, static))
        ELSE AfterDynamic(request, parent, rest, active, <<>>, <<>>, cache, static))

\* interopCjsExports: an interop request is replaced by the file path it carries
InteropCjsExports(s) == IF s.kind = "interop" THEN [s EXCEPT !.kind = "abs"] ELSE s

\* searchParams.get('namespace') ?? undefined; "" stands for undefined
NoNamespace == ""
NamespaceOf(query) == IF query = "namespace=n1" THEN "n1" ELSE NoNamespace

\* preserveQuery(request, parent): the clean request, the namespace tag and the query held
PreserveQuery(s) ==
    [clean |-> [s EXCEPT !.query = ""], namespace |-> NamespaceOf(s.query), query |-> s.query]

\* appendQuery(resolved, restOfArgs.length)
AppendQuery(resolved, query) == [resolved EXCEPT !.query = query]


ResolveArgWithQuery(request, pq) == request

\* the specifier the hook hands to resolveTsPaths: cleanRequest
ResolveArg(request, pq) == pq.clean

HookResultNoQuery(res, pq) == res

\* the value the hook returns: appendQuery(resolveTsPaths(...), restOfArgs.length);
\* an error thrown by resolveTsPaths propagates as thrown
HookResult(res, pq) == IF res.ok THEN Ok(AppendQuery(res.val, pq.query)) ELSE res

\* the hook delegating to the host resolver with the request as it stands
Delegate(request, parent, rest, cache) ==
    Bind(HostCall(request, parent, rest), LAMBDA h : Outcome(h.res, h.calls, cache))

\* the hook past its two early returns
Handle(namespace, request, pq, parent, rest, cache, static) ==
    Bind(ResolveTsPaths(ResolveArg(request, pq), parent, rest,
                        namespace # NoNamespace
                        \/ (parent.has /\ Len(parent.filename) > 0
                            /\ IsTsFile(parent.filename)),
                        cache, static),
         LAMBDA r : Outcome(HookResult(r.res, pq), r.calls, r.cache))

\* the hook without the test of state.enabled
ResolveFilenameAlways(enabled, namespace, request0, parent, rest, cache, static) ==
    Bind(InteropCjsExports(request0), LAMBDA request :
    Bind(PreserveQuery(request), LAMBDA pq :
        IF pq.namespace # namespace THEN Delegate(request, parent, rest, cache)
        ELSE Handle(namespace, request, pq, parent, rest, cache, static)))

\* the hook createResolveFilename(state, nextResolve, namespace) returns,
\* called with (request, parent, ...restOfArgs)
ResolveFilename(enabled, namespace, request0, parent, rest, cache, static) ==
    IF ~enabled THEN Delegate(request0, parent, rest, cache)
    ELSE Bind(InteropCjsExports(request0), LAMBDA request :
         Bind(PreserveQuery(request), LAMBDA pq :
            IF pq.namespace # namespace THEN Delegate(request, parent, rest, cache)
            ELSE Handle(namespace, request, pq, parent, rest, cache, static)))

(***************************************************************************)
(* The const-enum extractor parseConstEnumsFromAST.  A declaring file is   *)
(* its syntax tree: the top-level enum declarations in source order, each  *)
(* member with its key and its initializer node.                           *)
(***************************************************************************)
MaxLit == 5
MaxMembers == 3
MaxEnums == 2
MaxVal == 8

\* a member value: string | number; Undefined is lastInitialized before any member
Num(n) == [t |-> "number", n |-> n, s |-> ""]
Str(s) == [t |-> "string", n |-> 0, s |-> s]
Undefined == [t |-> "undefined", n |-> 0, s |-> ""]

\* JSON.stringify(value)
JsonStringify(v) == IF v.t = "number" THEN ToString(v.n) ELSE "\"" \o v.s \o "\""

\* JSON.parse(text): the value whose JSON text it is
JsonValues == {Num(n) : n \in (0 - MaxVal)..MaxVal} \cup {Str(s) : s \in {"a", "b"}}
JsonParse(text) == CHOOSE v \in JsonValues : JsonStringify(v) = text

\* an operand of a binary or unary expression: its node type, its literal
\* value, and its source text content.slice(node.start, node.end)
Operand(type, value, text) == [type |-> type, value |-> value, text |-> text]
NoOperand == Operand("", Undefined, "")
LitOp(v) == Operand("Literal", v, "")
RefOp(text) == Operand("MemberExpression", Undefined, text)

\* e.initializer: type "" is a member written without initializer
Initializer(type, value, operator, left, right) ==
    [type |-> type, value |-> value, operator |-> operator, left |-> left, right |-> right]
NoInit == Initializer("", Undefined, "", NoOperand, NoOperand)
Lit(v) == Initializer("Literal", v, "", NoOperand, NoOperand)
Binary(l, op, r) == Initializer("BinaryExpression", Undefined, op, l, r)
Unary(op, argument) == Initializer("UnaryExpression", Undefined, op, argument, NoOperand)
IdentifierInit == Initializer("Identifier", Undefined, "", NoOperand, NoOperand)

Member(key, init) == [key |-> key, init |-> init]

\* a top-level enum declaration: export? const? enum id { members }
EnumNode(exported, const, id, members) ==
    [exported |-> exported, const |-> const, id |-> id, members |-> members]

\* `${id}.${key}`
FullKey(id, key) == id \o "." \o key

\* EnumData
EnumData(declarations, defines) == [declarations |-> declarations, defines |-> defines]
NoDefines == [k \in {} |-> ""]
EmptyData == EnumData(<<>>, NoDefines)

\* defines[fullKey] = text
Define(defines, fullKey, text) ==
    [k \in DOMAIN defines \cup {fullKey} |-> IF k = fullKey THEN text ELSE defines[k]]

\* a value computed, or an error thrown
Value(v) == [threw |-> FALSE, value |-> v]
Throw == [threw |-> TRUE, value |-> Undefined]

\* resolveValue reading a reference that is not in defines as 0
ResolveValueLenient(node, defines) ==
    IF node.type = "Literal" THEN Value(node.value)
    ELSE IF node.type = "MemberExpression"
    THEN IF node.text \in DOMAIN defines THEN Value(JsonParse(defines[node.text]))
         ELSE Value(Num(0))
    ELSE Throw

\* resolveValue(node) of the BinaryExpression case
ResolveValue(node, defines) ==
    IF node.type = "Literal" THEN Value(node.value)
    ELSE IF node.type = "MemberExpression"
    THEN IF node.text \in DOMAIN defines THEN Value(JsonParse(defines[node.text]))
         ELSE Throw
    ELSE Throw

\* evaluate(`${leftValue}${operator}${rightValue}`): the operands are spliced
\* into the expression as text, so a string value reads as an unbound
\* identifier (ReferenceError) and a negative right operand of - reads as the
\* decrement operator (SyntaxError)
EvaluateBinary(l, op, r) ==
    IF l.t # "number" \/ r.t # "number" THEN Throw
    ELSE IF op = "-" /\ r.n < 0 THEN Throw
    ELSE IF op = "+" THEN Value(Num(l.n + r.n))
    ELSE IF op = "-" THEN Value(Num(l.n - r.n))
    ELSE IF op = "*" THEN Value(Num(l.n * r.n))
    ELSE Throw

\* evaluate(`${operator}${literal.value}`)
EvaluateUnary(op, v) ==
    IF v.t # "number" THEN Throw
    ELSE IF op = "-" THEN Value(Num(0 - v.n))
    ELSE IF op = "+" THEN Value(Num(v.n))
    ELSE Throw

\* the switch over init.type
InitValue(init, defines) ==
    IF init.type = "Literal" THEN Value(init.value)
    ELSE IF init.type = "BinaryExpression"
    THEN Bind(ResolveValue(init.left, defines), LAMBDA l :
            IF l.threw THEN Throw
            ELSE Bind(ResolveValue(init.right, defines), LAMBDA r :
                    IF r.threw THEN Throw
                    ELSE EvaluateBinary(l.value, init.operator, r.value)))
    ELSE IF init.type = "UnaryExpression"
    THEN IF init.left.type = "Literal" THEN EvaluateUnary(init.operator, init.left.value)
         ELSE Throw
    ELSE Throw

NextAutoSame(lastInitialized) == lastInitialized.n

\* lastInitialized++
NextAuto(lastInitialized) == lastInitialized.n + 1

\* the value of a member written without initializer
AutoValue(lastInitialized) ==
    IF lastInitialized.t = "undefined" THEN Value(Num(0))
    ELSE IF lastInitialized.t = "number" THEN Value(Num(NextAuto(lastInitialized)))
    ELSE Throw

\* the extraction under way: the members of the current declaration, the
\* declarations pushed, the defines table and lastInitialized
Extraction(threw, members, declarations, defines, lastInitialized) ==
    [threw |-> threw, members |-> members, declarations |-> declarations,
     defines |-> defines, lastInitialized |-> lastInitialized]
Thrown == Extraction(TRUE, <<>>, <<>>, NoDefines, Undefined)

\* saveValue(value) and lastInitialized = value
SaveValue(st, id, key, value) ==
    Extraction(FALSE, Append(st.members, [name |-> key, value |-> value]),
               st.declarations, Define(st.defines, FullKey(id, key), JsonStringify(value)),
               value)

\* the loop over decl.body.members, from member i on
RECURSIVE ParseMembers(_, _, _, _)
ParseMembers(st, id, members, i) ==
    IF i > Len(members) THEN st
    ELSE Bind(IF members[i].init.type = "" THEN AutoValue(st.lastInitialized)
              ELSE InitValue(members[i].init, st.defines),
              LAMBDA v :
                IF v.threw THEN Thrown
                ELSE Bind(SaveValue(st, id, members[i].key, v.value),
                          LAMBDA s : ParseMembers(s, id, members, i + 1)))

\* the loop over ast.body, from node i on
RECURSIVE ParseBody(_, _, _)
ParseBody(st, body, i) ==
    IF i > Len(body) THEN st
    ELSE IF ~(body[i].exported /\ body[i].const) THEN ParseBody(st, body, i + 1)
    ELSE Bind(ParseMembers(Extraction(FALSE, <<>>, st.declarations, st.defines, Undefined),
                           body[i].id, body[i].members, 1),
              LAMBDA m :
                IF m.threw THEN Thrown
                ELSE Bind(Extraction(FALSE, <<>>,
                                     Append(m.declarations,
                                            [id |-> body[i].id, members |-> m.members]),
                                     m.defines, Undefined),
                          LAMBDA s : ParseBody(s, body, i + 1)))

\* a file on disk: whether it exists, whether it parses, and its top-level nodes
File(exists, syntaxOk, body) == [exists |-> exists, syntaxOk |-> syntaxOk, body |-> body]
Missing == File(FALSE, FALSE, <<>>)
Broken == File(TRUE, FALSE, <<>>)
Source(body) == File(TRUE, TRUE, body)

LibTs == "/p/lib.ts"
LibDts == "/p/lib.d.ts"
DataJson == "/p/data.json"
EnumPaths == {LibTs, LibDts, DataJson}

\* getLang(filename)
GetLang(filename) ==
    IF filename = LibDts THEN "dts" ELSE IF filename = LibTs THEN "ts" ELSE "json"

\* isTs(lang)
IsTs(lang) == lang \in {"dts", "ts", "tsx", "mts", "cts"}

\* fs.existsSync(path)
ExistsSync(fs, path) == path \in DOMAIN fs /\ fs[path].exists

\* the body of the try block of parseConstEnumsFromAST and its catch: what
\* is cached for filePath
Extract(filePath, fs) ==
    IF ~ExistsSync(fs, filePath) THEN EmptyData
    ELSE IF ~IsTs(GetLang(filePath)) THEN EmptyData
    ELSE IF ~fs[filePath].syntaxOk THEN EmptyData
    ELSE Bind(ParseBody(Extraction(FALSE, <<>>, <<>>, NoDefines, Undefined),
                        fs[filePath].body, 1),
              LAMBDA st : IF st.threw THEN EmptyData
                          ELSE EnumData(st.declarations, st.defines))

\* constEnumCache.set(filePath, data)
EnumCacheSet(cache, filePath, data) ==
    [p \in DOMAIN cache \cup {filePath} |-> IF p = filePath THEN data ELSE cache[p]]

\* the extractor going to the file on every call
ParseConstEnumsUncached(filePath, cache, fs) ==
    Bind(Extract(filePath, fs), LAMBDA d :
        [data |-> d, cache |-> EnumCacheSet(cache, filePath, d), computed |-> TRUE])

\* parseConstEnumsFromAST(filePath): the data returned, the cache left, and
\* whether the call went past the cache to the file
ParseConstEnumsFromAST(filePath, cache, fs) ==
    IF filePath \in DOMAIN cache
    THEN [data |-> cache[filePath], cache |-> cache, computed |-> FALSE]
    ELSE Bind(Extract(filePath, fs), LAMBDA d :
            [data |-> d, cache |-> EnumCacheSet(cache, filePath, d), computed |-> TRUE])

(***************************************************************************)
(* The inliner transformConstEnum.  The code of a file is its import       *)
(* declarations followed by its text as a sequence of tokens; sw and ew    *)
(* tell whether a token starts and ends with a word character, which is    *)
(* what \b of the reference pattern looks at.                              *)
(***************************************************************************)
Token(text, sw, ew) == [text |-> text, sw |-> sw, ew |-> ew]
Word(text) == Token(text, TRUE, TRUE)
Punct(text) == Token(text, FALSE, FALSE)

\* the token JSON.stringify(member.value) writes
ValueToken(v) == Token(JsonStringify(v), v.t = "number" /\ v.n >= 0, v.t = "number")

\* an import specifier and an import declaration
Specifier(type, imported, local) == [type |-> type, imported |-> imported, local |-> local]
Import(source, specifiers) == [source |-> source, specifiers |-> specifiers]

\* syntaxOk is whether parseSync finds the import declarations of the code
Code(imports, text) == [imports |-> imports, text |-> text, syntaxOk |-> TRUE]
BrokenCode(imports, text) == [imports |-> imports, text |-> text, syntaxOk |-> FALSE]
NoCode == Code(<<>>, <<>>)

\* the value transformConstEnum returns: undefined, or { code, map }
None == [some |-> FALSE, code |-> NoCode]
Some(code) == [some |-> TRUE, code |-> code]

\* /\.[cm]?[jt]sx?$/.test(filePath)
MainTs == "/p/main.ts"
NotesMd == "/p/notes.md"
IsScript(filePath) == filePath = MainTs

\* path.resolve(currentDir, importPath), every consumer being in /p
ResolvedPath(importPath) ==
    IF importPath = "./lib" THEN "/p/lib"
    ELSE IF importPath = "./lib.js" THEN "/p/lib.js"
    ELSE "/p/none"

\* the candidates of resolveEnumPath in the order they are tried
Candidates(importPath) ==
    <<ResolvedPath(importPath) \o ".d.ts", ResolvedPath(importPath) \o ".ts",
      ResolvedPath(importPath) \o "/index.d.ts", ResolvedPath(importPath) \o "/index.ts">>
    \o (IF importPath = "./lib.js" THEN <<"/p/lib.d.ts", "/p/lib.ts">> ELSE <<>>)

\* resolveEnumPath(importPath, currentFile)
ResolveEnumPath(importPath, fs) ==
    SelectSeq(Candidates(importPath), LAMBDA c : ExistsSync(fs, c))

\* whether the pattern \b<pat>\b matches the text at token i
MatchAt(text, i, pat) ==
    /\ i + Len(pat) - 1 <= Len(text)
    /\ \A k \in 1..Len(pat) : text[i + k - 1].text = pat[k]
    /\ i = 1 \/ ~text[i - 1].ew
    /\ i + Len(pat) > Len(text) \/ ~text[i + Len(pat)].sw

\* the loop pattern.exec(code) of a global pattern: the starts of its
\* matches from token i on, left to right, a match resuming after itself
RECURSIVE Matches(_, _, _)
Matches(text, i, pat) ==
    IF i > Len(text) THEN <<>>
    ELSE IF MatchAt(text, i, pat) THEN <<i>> \o Matches(text, i + Len(pat), pat)
    ELSE Matches(text, i + 1, pat)

\* the MagicString s and the flag transformed, with the enum cache threaded
\* through the loops; an edit replaces the tokens start..end-1
Rewrite(threw, edits, transformed, cache) ==
    [threw |-> threw, edits |-> edits, transformed |-> transformed, cache |-> cache]

\* s.update(start, end, content): magic-string splits its chunks at start
\* and at end, and refuses to split a chunk it has already edited
Update(st, start, end, content) ==
    IF \E e \in st.edits : (e.start < start /\ start < e.end) \/ (e.start < end /\ end < e.end)
    THEN Rewrite(TRUE, st.edits, st.transformed, st.cache)
    ELSE Rewrite(FALSE,
                 {e \in st.edits : ~(start <= e.start /\ e.end <= end)}
                 \cup {[start |-> start, end |-> end, content |-> content]},
                 TRUE, st.cache)

\* the replacement without the comment
ReplacementBare(value, matched) == <<ValueToken(value)>>

\* `${replacement} /* ${match[0]} */`
Replacement(value, matched) ==
    <<ValueToken(value), Punct(" "), Punct("/*"), Punct(" ")>> \o matched \o <<Punct(" "), Punct("*/")>>

\* the while loop over the matches of one pattern
RECURSIVE UpdateMatches(_, _, _, _, _, _)
UpdateMatches(st, text, starts, k, len, value) ==
    IF st.threw \/ k > Len(starts) THEN st
    ELSE Bind(Update(st, starts[k], starts[k] + len,
                     Replacement(value, SubSeq(text, starts[k], starts[k] + len - 1))),
              LAMBDA s : UpdateMatches(s, text, starts, k + 1, len, value))

\* the loop over the members of one declaration; prefix is what the pattern
\* puts before the member name
RECURSIVE UpdateMembers(_, _, _, _, _)
UpdateMembers(st, text, prefix, members, k) ==
    IF st.threw \/ k > Len(members) THEN st
    ELSE Bind(UpdateMatches(st, text, Matches(text, 1, prefix \o <<members[k].name>>), 1,
                            Len(prefix) + 1, members[k].value),
              LAMBDA s : UpdateMembers(s, text, prefix, members, k + 1))

\* ImportNamespaceSpecifier: the loop over enumData.declarations
RECURSIVE UpdateDeclarations(_, _, _, _, _)
UpdateDeclarations(st, text, alias, declarations, k) ==
    IF st.threw \/ k > Len(declarations) THEN st
    ELSE Bind(UpdateMembers(st, text, <<alias, ".", declarations[k].id, ".">>,
                            declarations[k].members, 1),
              LAMBDA s : UpdateDeclarations(s, text, alias, declarations, k + 1))

\* enumData.declarations.find(d => d.id === importedName): its index, or 0
FindDeclaration(declarations, importedName) ==
    IF \E k \in 1..Len(declarations) : declarations[k].id = importedName
    THEN CHOOSE k \in 1..Len(declarations) :
            /\ declarations[k].id = importedName
            /\ \A j \in 1..(k - 1) : declarations[j].id # importedName
    ELSE 0

\* the loop over node.specifiers
RECURSIVE UpdateSpecifiers(_, _, _, _, _)
UpdateSpecifiers(st, text, specifiers, k, data) ==
    IF st.threw \/ k > Len(specifiers) THEN st
    ELSE IF specifiers[k].type = "ImportNamespaceSpecifier"
    THEN Bind(UpdateDeclarations(st, text, specifiers[k].local, data.declarations, 1),
              LAMBDA s : UpdateSpecifiers(s, text, specifiers, k + 1, data))
    ELSE IF specifiers[k].type = "ImportSpecifier"
            /\ FindDeclaration(data.declarations, specifiers[k].imported) # 0
    THEN Bind(UpdateMembers(st, text, <<specifiers[k].local, ".">>,
                            data.declarations[FindDeclaration(data.declarations,
                                                              specifiers[k].imported)].members,
                            1),
              LAMBDA s : UpdateSpecifiers(s, text, specifiers, k + 1, data))
    ELSE UpdateSpecifiers(st, text, specifiers, k + 1, data)

\* the loop over enumFiles
RECURSIVE UpdateEnumFiles(_, _, _, _, _, _)
UpdateEnumFiles(st, text, specifiers, enumFiles, k, fs) ==
    IF st.threw \/ k > Len(enumFiles) THEN st
    ELSE Bind(ParseConstEnumsFromAST(enumFiles[k], st.cache, fs), LAMBDA parsed :
         Bind(UpdateSpecifiers(Rewrite(st.threw, st.edits, st.transformed, parsed.cache),
                               text, specifiers, 1, parsed.data),
              LAMBDA s : UpdateEnumFiles(s, text, specifiers, enumFiles, k + 1, fs)))

\* the loop over the ImportDeclaration nodes of ast.body
RECURSIVE UpdateImports(_, _, _, _)
UpdateImports(st, code, k, fs) ==
    IF st.threw \/ k > Len(code.imports) THEN st
    ELSE Bind(UpdateEnumFiles(st, code.text, code.imports[k].specifiers,
                              ResolveEnumPath(code.imports[k].source, fs), 1, fs),
              LAMBDA s : UpdateImports(s, code, k + 1, fs))

\* the edit starting at token i, if there is one
EditAt(edits, i) == {e \in edits : e.start = i}

\* s.toString(), from token i on
RECURSIVE MagicToString(_, _, _)
MagicToString(text, edits, i) ==
    IF i > Len(text) THEN <<>>
    ELSE IF EditAt(edits, i) # {}
    THEN Bind(CHOOSE e \in EditAt(edits, i) : TRUE, LAMBDA e :
            e.content \o MagicToString(text, edits, e.end))
    ELSE <<text[i]>> \o MagicToString(text, edits, i + 1)

\* the outcome of transformConstEnum: the value returned and the cache left,
\* whether an error left the function, whether its catch took one, and the
\* flag transformed as the function left it
Transformed(result, cache, threw, caught, transformed) ==
    [result |-> result, cache |-> cache, threw |-> threw, caught |-> caught,
     transformed |-> transformed]

\* code.includes('import ')
HasImportText(code) == Len(code.imports) > 0

\* the try block of transformConstEnum up to the test of transformed
TryTransform(code, cache, fs) ==
    IF code.syntaxOk THEN UpdateImports(Rewrite(FALSE, {}, FALSE, cache), code, 1, fs)
    ELSE Rewrite(FALSE, {}, FALSE, cache)

\* the function without its catch
TransformUncaught(filePath, code, cache, fs) ==
    IF ~IsScript(filePath) \/ ~HasImportText(code)
    THEN Transformed(None, cache, FALSE, FALSE, FALSE)
    ELSE Bind(TryTransform(code, cache, fs), LAMBDA st :
            Transformed(IF st.threw \/ ~st.transformed THEN None
                        ELSE Some(Code(code.imports, MagicToString(code.text, st.edits, 1))),
                        st.cache, st.threw, FALSE, st.transformed))

\* transformConstEnum(filePath, code)
TransformConstEnum(filePath, code, cache, fs) ==
    IF ~IsScript(filePath) \/ ~HasImportText(code)
    THEN Transformed(None, cache, FALSE, FALSE, FALSE)
    ELSE Bind(TryTransform(code, cache, fs), LAMBDA st :
            Transformed(IF st.threw \/ ~st.transformed THEN None
                        ELSE Some(Code(code.imports, MagicToString(code.text, st.edits, 1))),
                        st.cache, FALSE, st.threw, st.transformed))

(***************************************************************************)
(* The declaring files and the consumer code explored.                     *)
(***************************************************************************)
MemberNames == <<"Red", "Green", "Blue", "Alpha">>

\* the members written without initializer or with a numeric literal
NumLits == 0..MaxLit
SimpleInits == {NoInit} \cup {Lit(Num(n)) : n \in NumLits}

\* export const enum Color { ... } over every sequence of such members
ColorOf(inits) ==
    EnumNode(TRUE, TRUE, "Color", [i \in 1..Len(inits) |-> Member(MemberNames[i], inits[i])])
ColorEnums ==
    UNION {{ColorOf(inits) : inits \in [1..n -> SimpleInits]} : n \in 1..MaxMembers}

\* export const enum Color { Red, Green = 5, Blue }
ColorEnum == ColorOf(<<NoInit, Lit(Num(5)), NoInit>>)
\* export const enum Dir { Up = 'a', Down = 'b' }
DirEnum ==
    EnumNode(TRUE, TRUE, "Dir", <<Member("Up", Lit(Str("a"))), Member("Down", Lit(Str("b")))>>)
\* export const enum Bad { S = 'a', T }
BadEnum == EnumNode(TRUE, TRUE, "Bad", <<Member("S", Lit(Str("a"))), Member("T", NoInit)>>)
\* export const enum Odd { X = someValue }
OddEnum == EnumNode(TRUE, TRUE, "Odd", <<Member("X", IdentifierInit)>>)
\* export const enum Flags { A = 1, B = Flags.A + 1, C = Color.Red + 5 }
FlagsEnum ==
    EnumNode(TRUE, TRUE, "Flags",
             <<Member("A", Lit(Num(1))),
               Member("B", Binary(RefOp("Flags.A"), "+", LitOp(Num(1)))),
               Member("C", Binary(RefOp("Color.Red"), "+", LitOp(Num(5))))>>)
\* export const enum Neg { M = -1, N }
NegEnum ==
    EnumNode(TRUE, TRUE, "Neg",
             <<Member("M", Unary("-", LitOp(Num(1)))), Member("N", NoInit)>>)
\* export const enum Sub { D = 2 - Neg.M }
SubEnum ==
    EnumNode(TRUE, TRUE, "Sub", <<Member("D", Binary(LitOp(Num(2)), "-", RefOp("Neg.M")))>>)
\* const enum Hidden { H }
HiddenEnum == EnumNode(FALSE, TRUE, "Hidden", <<Member("H", NoInit)>>)
\* export enum Plain { Q }
PlainEnum == EnumNode(TRUE, FALSE, "Plain", <<Member("Q", NoInit)>>)

SampleEnums ==
    {ColorEnum, DirEnum, BadEnum, OddEnum, FlagsEnum, NegEnum, SubEnum, HiddenEnum, PlainEnum}

\* the files of up to MaxEnums different sample declarations, in every order
SampleBodies ==
    UNION {{b \in [1..n -> SampleEnums] : \A i, j \in 1..n : b[i] = b[j] => i = j} :
           n \in 1..MaxEnums}

EnumBodies == {<<e>> : e \in ColorEnums} \cup SampleBodies

\* /p/lib.d.ts, when there is one: export const enum Color { Red = 7 }
DtsFiles ==
    {Missing, Source(<<EnumNode(TRUE, TRUE, "Color", <<Member("Red", Lit(Num(7)))>>)>>)}

\* the directory /p with lib.ts = f and lib.d.ts = d; data.json is not TypeScript
Disk(f, d) ==
    [p \in EnumPaths |-> IF p = LibTs THEN f ELSE IF p = LibDts THEN d
                         ELSE Source(<<ColorEnum>>)]

\* the texts of the consumer
Ref2(a, b) == <<Word(a), Punct("."), Word(b)>>
Ref3(a, b, c) == <<Word(a), Punct("."), Word(b), Punct("."), Word(c)>>
Assign(rhs) == <<Word("v"), Punct("=")>> \o rhs
Texts ==
    {Assign(Ref2("Color", "Red")),
     Assign(Ref3("Lib", "Color", "Red")),
     Assign(Ref2("K", "Blue") \o <<Punct("+")>> \o Ref2("Dir", "Up")),
     Assign(Ref2("Neg", "M")),
     Assign(<<Word("1")>>)}

\* the import declarations of the consumer
Named(imported, local) == Specifier("ImportSpecifier", imported, local)
ImportLists ==
    {<<>>,
     <<Import("./lib", <<Named("Color", "Color")>>)>>,
     <<Import("./lib", <<Specifier("ImportNamespaceSpecifier", "", "Lib")>>)>>,
     <<Import("./lib", <<Named("Color", "K"), Named("Dir", "Dir"), Named("Neg", "Neg")>>)>>,
     <<Import("./none", <<Named("Color", "Color")>>)>>,
     <<Import("./lib", <<Specifier("ImportNamespaceSpecifier", "", "Lib")>>),
       Import("./lib", <<Named("Color", "Color")>>)>>,
     <<Import("./lib", <<Named("Color", "Color")>>),
       Import("./lib", <<Specifier("ImportNamespaceSpecifier", "", "Lib")>>)>>,
     <<Import("./lib.js", <<Named("Color", "Color")>>)>>,
     <<Import("./lib", <<Specifier("ImportDefaultSpecifier", "", "Color")>>)>>}

\* a consumer that does not parse: import { Color } from './lib' ; v = Color.Red (
BrokenConsumer ==
    BrokenCode(<<Import("./lib", <<Named("Color", "Color")>>)>>,
               Assign(Ref2("Color", "Red")) \o <<Punct("(")>>)

Codes == {Code(i, t) : i \in ImportLists, t \in Texts} \cup {BrokenConsumer}

\* no call of the extractor or the inliner in progress
NoEnumCall ==
    [op |-> "init", path |-> "", code |-> NoCode, result |-> None, data |-> EmptyData,
     fed |-> FALSE, computed |-> FALSE, threw |-> FALSE, caught |-> FALSE,
     transformed |-> FALSE]
NoEnumCache == [p \in {} |-> EmptyData]

(***************************************************************************)
(* The asynchronous lookup getEnumsFromTypeFile of const-enum.ts and its   *)
(* pattern-based parser parseEnums.  An entry maps the name of each const  *)
(* enum of the file to the values of its members by name.                  *)
(***************************************************************************)
NoMembers == [k \in {} |-> Undefined]
NoEnums == [k \in {} |-> NoMembers]

\* map.set(key, value)
MapSet(map, key, value) ==
    [k \in DOMAIN map \cup {key} |-> IF k = key THEN value ELSE map[k]]

\* the text of an operand and of an initializer between = and the next comma
OperandText(o) ==
    IF o.type = "Literal"
    THEN IF o.value.t = "number" THEN ToString(o.value.n) ELSE "'" \o o.value.s \o "'"
    ELSE IF o.type = "MemberExpression" THEN o.text
    ELSE "someValue"
InitText(init) ==
    IF init.type = "Literal" THEN OperandText(LitOp(init.value))
    ELSE IF init.type = "BinaryExpression"
    THEN OperandText(init.left) \o " " \o init.operator \o " " \o OperandText(init.right)
    ELSE IF init.type = "UnaryExpression" THEN init.operator \o OperandText(init.left)
    ELSE "someValue"

\* whether Number(cleanValue) is a number for the text of the initializer
IsNumeric(init) ==
    \/ init.type = "Literal" /\ init.value.t = "number"
    \/ init.type = "UnaryExpression" /\ init.operator \in {"-", "+"}
       /\ init.left.type = "Literal" /\ init.left.value.t = "number"

\* memberValue of parseEnums: the running index without initializer, the
\* text without its quotes for a quoted one, Number(text) when that is a
\* number, the text otherwise
MemberValue(init, index) ==
    IF init.type = "" THEN Num(index)
    ELSE IF init.type = "Literal" /\ init.value.t = "string" THEN Str(init.value.s)
    ELSE IF IsNumeric(init)
    THEN Num(IF init.type = "UnaryExpression" /\ init.operator = "-"
             THEN 0 - init.left.value.n
             ELSE IF init.type = "UnaryExpression" THEN init.left.value.n
             ELSE init.value.n)
    ELSE Str(InitText(init))

\* the inner while loop of parseEnums over the members, from member i on
RECURSIVE RegexMembers(_, _, _, _)
RegexMembers(members, i, index, map) ==
    IF i > Len(members) THEN map
    ELSE Bind(MemberValue(members[i].init, index), LAMBDA v :
            RegexMembers(members, i + 1, IF v.t = "number" THEN v.n + 1 ELSE index + 1,
                         MapSet(map, members[i].key, v)))

\* parseEnums(content): the outer loop over the matches of ENUM_REGEX, which
\* takes const enums exported or not
RECURSIVE ParseEnumsRegex(_, _, _)
ParseEnumsRegex(body, i, enums) ==
    IF i > Len(body) THEN enums
    ELSE IF ~body[i].const \/ Len(body[i].members) = 0
    THEN ParseEnumsRegex(body, i + 1, enums)
    ELSE Bind(RegexMembers(body[i].members, 1, 0, NoMembers), LAMBDA members :
            ParseEnumsRegex(body, i + 1, MapSet(enums, body[i].id, members)))

\* await fs.promises.readFile(typeFilePath) settled, and what follows it in
\* the same turn: the entry that is cached and returned
ReadAndParse(fs, typeFilePath) ==
    IF ~ExistsSync(fs, typeFilePath) THEN NoEnums
    ELSE ParseEnumsRegex(fs[typeFilePath].body, 1, NoEnums)

\* the cache as the lookup leaves it before it awaits the file, reserving the key
CacheBeforeAwaitReserved(cache, typeFilePath) == MapSet(cache, typeFilePath, NoEnums)

\* the cache as the lookup leaves it before it awaits the file
CacheBeforeAwait(cache, typeFilePath) == cache

\* an in-flight call of getEnumsFromTypeFile: where it is, its argument,
\* whether it missed the cache, and the entry it returned
Lookup(pc, path, missed, result) ==
    [pc |-> pc, path |-> path, missed |-> missed, result |-> result]
NoLookup == Lookup("idle", "", FALSE, NoEnums)
Callers == {1, 2}

AsyncAtRest ==
    /\ enumCache = [p \in {} |-> NoEnums]
    /\ lookups = [c \in Callers |-> NoLookup]

(***************************************************************************)
(* The test utility ptyShell.  The child's stdout is a sequence of bytes,  *)
(* delivered to the 'data' handler in chunks cut anywhere; a string is a   *)
(* sequence of characters.  "C3" "A9" are the two bytes of U+00E9, "ESC"   *)
(* stands for an ANSI escape code.                                         *)
(***************************************************************************)
LF == "\n"
CR == "\r"
LeadByte == "C3"
ContinuationByte == "A9"
EAcute == "U+00E9"
ReplacementChar == "U+FFFD"
Esc == "ESC"

\* chunk.toString(): the UTF-8 decoding of the bytes of one chunk, from byte
\* i on; a sequence cut off by the end of the chunk, and a continuation byte
\* with no lead byte before it, decode to U+FFFD
RECURSIVE ChunkToString(_, _)
ChunkToString(chunk, i) ==
    IF i > Len(chunk) THEN <<>>
    ELSE IF chunk[i] = LeadByte
    THEN IF i < Len(chunk) /\ chunk[i + 1] = ContinuationByte
         THEN <<EAcute>> \o ChunkToString(chunk, i + 2)
         ELSE <<ReplacementChar>> \o ChunkToString(chunk, i + 1)
    ELSE IF chunk[i] = ContinuationByte
    THEN <<ReplacementChar>> \o ChunkToString(chunk, i + 1)
    ELSE <<chunk[i]>> \o ChunkToString(chunk, i + 1)

\* stripAnsi(string)
StripAnsi(s) == SelectSeq(s, LAMBDA c : c # Esc)

\* string.indexOf(c), counted from 1; 0 when c is not in it
IndexOf(s, c) ==
    IF \E i \in DOMAIN s : s[i] = c
    THEN CHOOSE i \in DOMAIN s : s[i] = c /\ \A j \in 1..(i - 1) : s[j] # c
    ELSE 0

\* string.endsWith(suffix)
EndsWith(s, suffix) ==
    /\ Len(suffix) <= Len(s)
    /\ SubSeq(s, Len(s) - Len(suffix) + 1, Len(s)) = suffix

\* commandCaret on a system that is not Windows
CommandCaret == <<"$", " ">>

\* rawLine.replace(/\r$/, '')
StripCR(rawLine) ==
    IF Len(rawLine) > 0 /\ rawLine[Len(rawLine)] = CR
    THEN SubSeq(rawLine, 1, Len(rawLine) - 1) ELSE rawLine

\* the RegExp objects handed to waitForLine and the source of each; r1 and
\* r3 are two objects of the same source
Patterns == {"r1", "r2", "r3"}
PatternSource(pattern) == IF pattern = "r2" THEN "b" ELSE "a"

\* pattern.test(line)
Test(pattern, line) == \E i \in DOMAIN line : line[i] = PatternSource(pattern)

\* the callers of waitForLine; each holds the promise of one Deferred
Waiters == {1, 2}
NotRegistered == [pattern |-> "", at |-> 0 - 1]

\* lineMap.set(pattern, deferred): a Map keeps one entry per key object
LineMapSet(lineMap, pattern, waiter) ==
    IF \E k \in DOMAIN lineMap : lineMap[k].pattern = pattern
    THEN [k \in DOMAIN lineMap |->
            IF lineMap[k].pattern = pattern
            THEN [pattern |-> pattern, waiter |-> waiter] ELSE lineMap[k]]
    ELSE Append(lineMap, [pattern |-> pattern, waiter |-> waiter])

\* onLine(line): every entry whose pattern matches is resolved with the line
\* and deleted; lines records the calls of onLine
OnLine(st, line) ==
    [st EXCEPT
        !.lines = Append(st.lines, line),
        !.resolved = [w \in Waiters |->
            IF \E k \in DOMAIN st.lineMap :
                    st.lineMap[k].waiter = w /\ Test(st.lineMap[k].pattern, line)
            THEN Append(st.resolved[w], line) ELSE st.resolved[w]],
        !.lineMap = SelectSeq(st.lineMap, LAMBDA e : ~Test(e.pattern, line))]

\* the while loop over the newlines of lineBuffer
RECURSIVE ExtractLines(_)
ExtractLines(st) ==
    Bind(IndexOf(st.lineBuffer, LF), LAMBDA newlineIndex :
        IF newlineIndex = 0 THEN st
        ELSE ExtractLines(
                OnLine([st EXCEPT !.lineBuffer = SubSeq(st.lineBuffer, newlineIndex + 1,
                                                        Len(st.lineBuffer))],
                       StripAnsi(StripCR(SubSeq(st.lineBuffer, 1, newlineIndex - 1))))))

\* the 'data' handler of childProcess.stdout
OnData(st, chunk) ==
    Bind(ChunkToString(chunk, 1), LAMBDA chunkString :
    Bind([st EXCEPT !.buffer = st.buffer \o chunkString,
                    !.lineBuffer = st.lineBuffer \o chunkString], LAMBDA s :
        ExtractLines(
            IF EndsWith(s.buffer, CommandCaret) /\ s.promptDeferred
            THEN [s EXCEPT !.promptDeferred = FALSE, !.prompts = s.prompts + 1]
            ELSE s)))

\* ptyShell just created, the child about to write stdout
PtyStart(stdout) ==
    [pending |-> stdout, sent |-> <<>>, buffer |-> <<>>, lineBuffer |-> <<>>,
     promptDeferred |-> FALSE, prompts |-> 0, lineMap |-> <<>>, lines |-> <<>>,
     resolved |-> [w \in Waiters |-> <<>>],
     registered |-> [w \in Waiters |-> NotRegistered]]

PtyAtRest == pty = PtyStart(<<>>)

(***************************************************************************)
(* The state machine of the resolution pipeline.                           *)
(***************************************************************************)
ConfigDirs == {DirA, DirB}

\* the workspaces explored: package A at /A, package B nested at /A/B
Layout(a, b) == [d \in ConfigDirs |-> IF d = DirA THEN a ELSE b]
TsLayouts ==
    {Layout("pa", "pb"), Layout("pa", "nopaths"), Layout("pa", "none"),
     Layout("pa", "bad"), Layout("pa", "denied"), Layout("none", "pb"),
     Layout("bad", "pb"), Layout("none", "none")}

\* the calls of the hook explored: the hook's state.enabled and namespace, and
\* the arguments (request, parent, ...restOfArgs)
Call(e, ns, r, p, rest) ==
    [enabled |-> e, namespace |-> ns, request |-> r, parent |-> p, rest |-> rest]
CallInputs ==
    {Call(TRUE, NoNamespace, r, p, <<>>) : r \in Requests, p \in Parents}
    \cup {Call(FALSE, NoNamespace, r, Parent(FileATs), <<>>) :
            r \in {WithQuery(ReqAliasA, "raw"), ReqInterop, ReqRel}}
    \cup {Call(TRUE, "n1", r, p, <<>>) :
            r \in {WithQuery(ReqRel, "namespace=n1"), ReqRel, ReqAliasA, ReqRelJs},
            p \in {Parent(FileAJs), Parent(FileBTs)}}
    \cup {Call(TRUE, NoNamespace, r, Parent(FileATs), <<"isMain">>) :
            r \in {ReqAliasA, WithQuery(ReqRel, "raw"), WithQuery(ReqAliasA, "namespace=n1")}}
    \cup {Call(TRUE, NoNamespace, WithQuery(ReqInterop, "namespace=n1"), Parent(FileATs), <<>>)}

NoCall == [op |-> "init", enabled |-> TRUE, namespace |-> NoNamespace, request |-> ReqPkg,
           parent |-> NoParent, rest |-> <<>>, res |-> Ok(ReqPkg), calls |-> <<>>,
           static |-> NoMatcher, outcome |-> "", given |-> FALSE, dir |-> Root]

Init ==
    /\ tsAt \in TsLayouts
    /\ files \in SUBSET FileUniverse
    /\ fileMatcher = NoMatcher
    /\ tsconfigPathsMatcher = NoMatcher
    /\ allowJs = FALSE
    /\ tsconfigCache = [d \in {} |-> NullEntry]
    /\ last = NoCall
    /\ enumFs = Disk(Missing, Missing)
    /\ constEnumCache = NoEnumCache
    /\ elast = NoEnumCall
    /\ AsyncAtRest
    /\ PtyAtRest

\* the loader is single-threaded and the hook synchronous: an operation
\* starts only when the previous one has returned to its caller
Idle == last.op = "init"

\* loadTsconfig(configPath?)
LoadTsconfig(given, dir) ==
    \E r \in {LoadTsconfigResult(given, dir)} :
        /\ Idle
        /\ fileMatcher' = r.globals.fileMatcher
        /\ tsconfigPathsMatcher' = r.globals.tsconfigPathsMatcher
        /\ allowJs' = r.globals.allowJs
        /\ last' = [NoCall EXCEPT !.op = "load", !.outcome = r.outcome,
                                  !.given = given, !.dir = dir,
                                  !.static = tsconfigPathsMatcher]
        /\ UNCHANGED <<tsAt, files, tsconfigCache, enumVars, asyncVars, ptyVars>>

\* one call of the installed hook
Resolve(enabled, namespace, request, parent, rest) ==
    /\ Idle
    /\ \E r \in {ResolveFilename(enabled, namespace, request, parent, rest,
                                 tsconfigCache, tsconfigPathsMatcher)} :
        /\ tsconfigCache' = r.cache
        /\ last' = [NoCall EXCEPT
                        !.op = "resolve", !.enabled = enabled, !.namespace = namespace,
                        !.request = request, !.parent = parent, !.rest = rest,
                        !.res = r.res, !.calls = r.calls, !.static = tsconfigPathsMatcher]
    /\ UNCHANGED <<tsAt, files, fileMatcher, tsconfigPathsMatcher, allowJs, enumVars, asyncVars, ptyVars>>

\* the caller takes the outcome of the last operation
Return ==
    /\ ~Idle
    /\ last' = NoCall
    /\ UNCHANGED <<tsAt, files, fileMatcher, tsconfigPathsMatcher, allowJs, tsconfigCache,
                   enumVars, asyncVars, ptyVars>>

Next ==
    \/ Return
    \/ \E dir \in ConfigDirs : LoadTsconfig(TRUE, dir)
    \/ LoadTsconfig(FALSE, Root)
    \/ \E c \in CallInputs :
            Resolve(c.enabled, c.namespace, c.request, c.parent, c.rest)

Spec == Init /\ [][Next]_vars

(***************************************************************************)
(* Properties of the resolution hook, stated on the last call.             *)
(***************************************************************************)
Range(s) == {s[i] : i \in DOMAIN s}

\* the last call reached resolveTsPaths: enabled, and the namespace tag matched
Handled ==
    /\ last.op = "resolve"
    /\ last.enabled
    /\ NamespaceOf(InteropCjsExports(last.request).query) = last.namespace

\* the request resolveTsPaths works on, and the query held back
LastClean == FileURLToPath(WithQuery(InteropCjsExports(last.request), ""))
LastQuery == InteropCjsExports(last.request).query

\* the events of one kind, in call order
RECURSIVE Select(_, _)
Select(calls, op) ==
    IF Len(calls) = 0 THEN <<>>
    ELSE IF calls[1].op = op THEN <<calls[1]>> \o Select(Tail(calls), op)
    ELSE Select(Tail(calls), op)

DynamicEvents == Select(last.calls, "dynamic")
StaticEvents == Select(last.calls, "static")
ChainEvents == Select(last.calls, "chain")
HostEvents == Select(last.calls, "host")

\* the candidates the matchers returned to resolveTsPaths in the last call
LastPossiblePaths ==
    IF Len(StaticEvents) > 0 THEN StaticEvents[1].ret
    ELSE IF Len(DynamicEvents) > 0 THEN DynamicEvents[1].ret
    ELSE <<>>

LastTsActive ==
    last.namespace # NoNamespace
    \/ (last.parent.has /\ IsTsFile(last.parent.filename))

MatcherA == Matcher(DirA, "pa")

\* a bare request from a file outside node_modules
AliasEligible ==
    /\ LastClean.kind \notin {"rel", "abs"}
    /\ ~(last.parent.has /\ InNodeModules(last.parent.filename))

\* C1: with package A's configuration as the global matcher and package B
\* nested in A with its own, different paths, no specifier handed to the
\* resolver chain for a bare request from a file in B is one of the
\* candidates A's mapping yields for that request.
C1_WorkspaceIsolation ==
    (/\ Handled
     /\ tsAt[DirA] = "pa" /\ tsAt[DirB] = "pb"
     /\ last.static = MatcherA
     /\ last.parent = Parent(FileBTs)
     /\ LastClean.kind = "bare")
    => \A i \in DOMAIN ChainEvents :
           ChainEvents[i].req \notin Range(ApplyPaths(MatcherA, LastClean))

\* the request as the caller wrote it, without its query
StrippedRequest == WithQuery(last.request, "")

WithoutAliasing ==
    /\ Handled
    /\ \/ Len(LastPossiblePaths) = 0
       \/ LastClean.kind \in {"rel", "abs"}
       \/ (last.parent.has /\ InNodeModules(last.parent.filename))

TsSiblingWins ==
    /\ LastTsActive
    /\ StrippedRequest.ext = ".js"
    /\ Host([StrippedRequest EXCEPT !.ext = ".ts"]).ok

C6_QueryIsolation ==
    (Handled /\ LastQuery # "")
    => /\ \A i \in DOMAIN last.calls : last.calls[i].req.query = ""
       /\ \A i \in DOMAIN DynamicEvents : DynamicEvents[i].req = LastClean
       /\ \A i \in DOMAIN StaticEvents : StaticEvents[i].req = LastClean
       /\ \A i \in DOMAIN ChainEvents :
            ChainEvents[i].req \in {LastClean} \cup Range(LastPossiblePaths)
       /\ last.res.ok => last.res.val.query = LastQuery

C6_Witness ==
    /\ Handled /\ LastQuery = "raw"
    /\ Len(LastPossiblePaths) > 0
    /\ last.res.ok
    /\ last.res.val.kind = "abs"

\* C7: for a request resolveTsPaths considers for aliasing, the dynamic
\* matcher is called before anything else whenever there is a parent
\* filename, and the loaded global matcher is called if and only if the
\* dynamic matcher produced no candidate; it is never called once the dynamic
\* matcher produced one.
C7_MatcherOrdering ==
    (Handled /\ AliasEligible)
    => /\ Len(DynamicEvents) = (IF last.parent.has THEN 1 ELSE 0)
       /\ Len(DynamicEvents) = 1 => last.calls[1].op = "dynamic"
       /\ Len(StaticEvents) <= 1
       /\ last.static.def =>
            (Len(StaticEvents) = 1
                <=> (Len(DynamicEvents) = 0 \/ Len(DynamicEvents[1].ret) = 0))
       /\ ~last.static.def => Len(StaticEvents) = 0
       /\ Len(StaticEvents) = 1 =>
            last.calls[Len(DynamicEvents) + 1].op = "static"

C7_Witness ==
    /\ Handled /\ AliasEligible
    /\ last.static.def
    /\ Len(DynamicEvents) = 1 /\ Len(DynamicEvents[1].ret) > 0
    /\ Len(StaticEvents) = 0
    /\ last.static # tsconfigCache[Dirname(last.parent.filename)].paths

\* C8: the alias candidates go through the resolver chain in the order the
\* matcher returned them; the first success is the result and ends the
\* attempts, failures are discarded, and the original request is resolved
\* through the chain only when every candidate failed or there was none.
C8_CandidateOrdering ==
    (Handled /\ AliasEligible)
    => LET n == Len(ChainEvents)
           P == LastPossiblePaths
       IN  /\ n >= 1 /\ n <= Len(P) + 1
           /\ \A i \in 1..n : i <= Len(P) => ChainEvents[i].req = P[i]
           /\ \A i \in 1..(n - 1) : ~ChainEvents[i].ok
           /\ n <= Len(P) =>
                /\ ChainEvents[n].ok
                /\ last.res = Ok(AppendQuery(ChainEvents[n].ret[1], LastQuery))
           /\ n = Len(P) + 1 =>
                /\ ChainEvents[n].req = LastClean
                /\ last.res.ok = ChainEvents[n].ok
                /\ last.res.ok =>
                     last.res = Ok(AppendQuery(ChainEvents[n].ret[1], LastQuery))

C8_Witness ==
    /\ Handled /\ AliasEligible
    /\ Len(LastPossiblePaths) = 2
    /\ Len(ChainEvents) = 2
    /\ ~ChainEvents[1].ok /\ ChainEvents[2].ok
    /\ last.res.ok

\* C9: when the requesting file lies in a node_modules directory, or the
\* request is a file path rather than a bare specifier, neither matcher is
\* called and the request goes through the resolver chain once, as it is.
C9_NoAliasLeak ==
    (/\ Handled
     /\ \/ (last.parent.has /\ InNodeModules(last.parent.filename))
        \/ LastClean.kind \in {"rel", "abs"})
    => /\ Len(DynamicEvents) = 0
       /\ Len(StaticEvents) = 0
       /\ Len(ChainEvents) = 1
       /\ ChainEvents[1].req = LastClean
       /\ last.calls[1] = ChainEvents[1]

C9_Witness ==
    /\ Handled
    /\ last.parent.has /\ InNodeModules(last.parent.filename)
    /\ LastClean.kind = "bare"
    /\ last.static.def
    /\ Len(ApplyPaths(last.static, LastClean)) > 0
    /\ Len(ChainEvents) = 1

\* C10: when a handled request fails, the error thrown is the one the host
\* resolver raised for the original request, whatever the candidates raised.
C10_ExhaustedResolution ==
    (Handled /\ ~last.res.ok)
    => /\ last.res = Err(NotFound, LastClean)
       /\ \E i \in DOMAIN HostEvents :
            HostEvents[i].req = LastClean /\ ~HostEvents[i].ok

C10_Witness ==
    /\ Handled /\ ~last.res.ok
    /\ Len(LastPossiblePaths) = 2
    /\ Len(ChainEvents) = 3

\* the namespace tag the request of the last call carries
LastTag == NamespaceOf(LastQuery)

\* the last call went to the next resolver once, with the given request and
\* the parent and passthrough arguments received, and to nothing else
DelegatedWith(request) ==
    /\ Len(last.calls) = 1
    /\ last.calls[1].op = "host"
    /\ last.calls[1].req = request
    /\ last.calls[1].from = last.parent.filename
    /\ last.calls[1].rest = last.rest
    /\ last.res = Host(request)

\* C19: namespace gating: a request whose namespace tag does not match the
\* hook's namespace is delegated to the next resolver with the same request
\* (as it stands after interop normalisation, query attached), parent and
\* passthrough arguments, and no alias or extension strategy runs for it; a
\* request carrying no namespace tag is handled by the hook.
C19_NamespaceGating ==
    (last.op = "resolve" /\ last.enabled) =>
        /\ (LastTag # NoNamespace /\ LastTag # last.namespace) =>
                DelegatedWith(InteropCjsExports(last.request))
        /\ LastTag = NoNamespace => Len(ChainEvents) > 0

\* C20: when state.enabled is false the hook returns nextResolve(request,
\* parent, ...restOfArgs) with the arguments exactly as received: no interop
\* normalisation, no query extraction, no matcher call and no cache write.
C20_DisabledPassthrough ==
    [][(last'.op = "resolve" /\ ~last'.enabled) =>
            /\ (DelegatedWith(last.request))'
            /\ UNCHANGED tsconfigCache]_vars

\* a disabled hook was called with an alias request carrying a query, from a
\* file whose directory has no cache entry under a configuration with paths:
\* enabled, the call would split the query, ask the matcher and fill the cache
C20_Witness ==
    /\ last.op = "resolve"
    /\ ~last.enabled
    /\ last.request = WithQuery(ReqAliasA, "raw")
    /\ tsAt[DirA] = "pa"
    /\ Dirname(last.parent.filename) \notin DOMAIN tsconfigCache
    /\ DelegatedWith(last.request)

\* the configuration a call of loadTsconfig settles on, if it settles on one
LoadTarget(given, dir) ==
    IF given THEN [found |-> TRUE, dir |-> dir] ELSE GetTsconfig(Cwd)

\* C18: loadTsconfig without a path, when no configuration is found or the
\* search fails, returns silently and leaves fileMatcher, tsconfigPathsMatcher
\* and allowJs unchanged; with an explicit path whose parse fails it throws
\* and leaves all three unchanged; on success it sets all three from the same
\* configuration.
C18_LoadTsconfigFrame ==
    [][last'.op = "load" =>
        LET target == LoadTarget(last'.given, last'.dir)
            failed == ~target.found \/ ~ParseTsconfig(target.dir)
        IN  /\ (~last'.given /\ failed) =>
                    /\ last'.outcome = "silent"
                    /\ UNCHANGED <<fileMatcher, tsconfigPathsMatcher, allowJs>>
            /\ (last'.given /\ failed) =>
                    /\ last'.outcome = "threw"
                    /\ UNCHANGED <<fileMatcher, tsconfigPathsMatcher, allowJs>>
            /\ ~failed =>
                    /\ last'.outcome = "loaded"
                    /\ fileMatcher' = CreateFilesMatcher(target.dir, TsKindAt(target.dir))
                    /\ tsconfigPathsMatcher'
                            = CreatePathsMatcher(target.dir, TsKindAt(target.dir))
                    /\ allowJs' = CfgAllowJs(TsKindAt(target.dir))]_vars

\* a call with an explicit path threw after an earlier call had loaded a
\* configuration with paths, and the matcher of that configuration is in place
C18_Witness ==
    /\ last.op = "load"
    /\ last.given
    /\ last.outcome = "threw"
    /\ tsconfigPathsMatcher # NoMatcher
    /\ tsconfigPathsMatcher = last.static

(***************************************************************************)
(* The state machines of the extractor and of the inliner.                 *)
(***************************************************************************)
\* the resolution pipeline at rest
ResolutionAtRest ==
    /\ tsAt = Layout("none", "none")
    /\ files = {}
    /\ fileMatcher = NoMatcher
    /\ tsconfigPathsMatcher = NoMatcher
    /\ allowJs = FALSE
    /\ tsconfigCache = [d \in {} |-> NullEntry]
    /\ last = NoCall

EnumIdle == elast.op = "init"

\* parseConstEnumsFromAST(filePath)
ParseEnums(filePath) ==
    /\ EnumIdle
    /\ \E r \in {ParseConstEnumsFromAST(filePath, constEnumCache, enumFs)} :
        /\ constEnumCache' = r.cache
        /\ elast' = [NoEnumCall EXCEPT !.op = "parse", !.path = filePath, !.data = r.data,
                                       !.computed = r.computed]
    /\ UNCHANGED <<enumFs, resolutionVars, asyncVars, ptyVars>>

\* transformConstEnum(filePath, code)
Transform(filePath, code) ==
    /\ EnumIdle
    /\ \E r \in {TransformConstEnum(filePath, code, constEnumCache, enumFs)} :
        /\ constEnumCache' = r.cache
        /\ elast' = [NoEnumCall EXCEPT !.op = "transform", !.path = filePath,
                                       !.code = code, !.result = r.result,
                                       !.threw = r.threw, !.caught = r.caught,
                                       !.transformed = r.transformed]
    /\ UNCHANGED <<enumFs, resolutionVars, asyncVars, ptyVars>>

\* transformConstEnum(filePath, c1) on the code the last call returned
TransformAgain ==
    /\ elast.op = "transform"
    /\ elast.result.some
    /\ ~elast.fed
    /\ \E r \in {TransformConstEnum(elast.path, elast.result.code, constEnumCache, enumFs)} :
        /\ constEnumCache' = r.cache
        /\ elast' = [NoEnumCall EXCEPT !.op = "transform", !.path = elast.path,
                                       !.code = elast.result.code, !.result = r.result,
                                       !.threw = r.threw, !.caught = r.caught,
                                       !.transformed = r.transformed, !.fed = TRUE]
    /\ UNCHANGED <<enumFs, resolutionVars, asyncVars, ptyVars>>

\* the caller takes the outcome of the last call
ReturnEnum ==
    /\ ~EnumIdle
    /\ elast' = NoEnumCall
    /\ UNCHANGED <<enumFs, constEnumCache, resolutionVars, asyncVars, ptyVars>>

InitEnum ==
    /\ ResolutionAtRest
    /\ enumFs \in {Disk(f, d) : f \in {Missing, Broken} \cup {Source(b) : b \in EnumBodies},
                                d \in DtsFiles}
    /\ constEnumCache = NoEnumCache
    /\ elast = NoEnumCall
    /\ AsyncAtRest
    /\ PtyAtRest

NextEnum ==
    \/ ReturnEnum
    \/ \E p \in EnumPaths : ParseEnums(p)

SpecEnum == InitEnum /\ [][NextEnum]_vars

InitTransform ==
    /\ ResolutionAtRest
    /\ enumFs \in {Disk(f, d) : f \in {Missing, Broken} \cup {Source(b) : b \in SampleBodies},
                                d \in DtsFiles}
    /\ constEnumCache = NoEnumCache
    /\ elast = NoEnumCall
    /\ AsyncAtRest
    /\ PtyAtRest

NextTransform ==
    \/ ReturnEnum
    \/ \E c \in Codes : Transform(MainTs, c)
    \/ Transform(NotesMd, Code(<<Import("./lib", <<Named("Color", "Color")>>)>>,
                               Assign(Ref2("Color", "Red"))))
    \/ TransformAgain

SpecTransform == InitTransform /\ [][NextTransform]_vars

(***************************************************************************)
(* Properties of the extractor and the inliner, stated on the last call.   *)
(***************************************************************************)
\* the last call parsed a TypeScript file that exists and parses
ParsedSource ==
    /\ elast.op = "parse"
    /\ IsTs(GetLang(elast.path))
    /\ enumFs[elast.path].exists
    /\ enumFs[elast.path].syntaxOk

ParsedBody == enumFs[elast.path].body

\* the declarations of the entry with the given id
Declared(id) == {d \in Range(elast.data.declarations) : d.id = id}

NumericLiteral(init) == init.type = "Literal" /\ init.value.t = "number"
StringLiteral(init) == init.type = "Literal" /\ init.value.t = "string"

\* C2: if transformConstEnum(file, code) returns { code: c1 }, then
\* transformConstEnum(file, c1) against the same declaring files returns
\* undefined: the second pass rewrites nothing
C2_Idempotence ==
    (elast.op = "transform" /\ elast.fed) => ~elast.result.some

\* a declaration whose members are literals or follow a member they can count from
SelfContained(node) ==
    \A i \in 1..Len(node.members) :
        \/ node.members[i].init.type = "Literal"
        \/ /\ node.members[i].init.type = ""
           /\ i = 1 \/ ~StringLiteral(node.members[i - 1].init)

\* C3: an extraction failure in one exported const enum of a file leaves every
\* other exported const enum of that file, declared before or after it, in
\* the declarations and the defines of the file's entry
C3_FailureConfined ==
    ParsedSource =>
        \A k \in 1..Len(ParsedBody) :
            (ParsedBody[k].exported /\ ParsedBody[k].const /\ SelfContained(ParsedBody[k])) =>
                /\ Declared(ParsedBody[k].id) # {}
                /\ \A i \in 1..Len(ParsedBody[k].members) :
                        FullKey(ParsedBody[k].id, ParsedBody[k].members[i].key)
                            \in DOMAIN elast.data.defines

\* the source node of a declaration of the entry
NodeOf(id) == CHOOSE n \in Range(ParsedBody) : n.exported /\ n.const /\ n.id = id

\* the rule of C4 for member i of declaration d, read off the entry itself
Numbered(d, i) ==
    LET init == NodeOf(d.id).members[i].init
    IN  /\ d.members[i].name = NodeOf(d.id).members[i].key
        /\ NumericLiteral(init) => d.members[i].value = init.value
        /\ (init.type = "" /\ i = 1) => d.members[i].value = Num(0)
        /\ (init.type = "" /\ i > 1 /\ d.members[i - 1].value.t = "number") =>
                d.members[i].value = Num(d.members[i - 1].value.n + 1)
        /\ elast.data.defines[FullKey(d.id, d.members[i].name)]
                = JsonStringify(d.members[i].value)

\* every declaration of the file has only members without initializer or
\* with a numeric literal
AllSimple ==
    \A n \in Range(ParsedBody) :
        n.exported /\ n.const /\ \A i \in 1..Len(n.members) : n.members[i].init \in SimpleInits

\* C4: within one exported const enum a member with no initializer gets 0 if
\* it is the first member, otherwise the previous numeric value + 1, and a
\* member with a numeric literal initializer gets that value; a file of such
\* enums has every one of them, with all its members, in its entry
C4_MemberNumbering ==
    ParsedSource =>
        /\ \A d \in Range(elast.data.declarations) :
                /\ Len(d.members) = Len(NodeOf(d.id).members)
                /\ \A i \in 1..Len(d.members) : Numbered(d, i)
        /\ AllSimple =>
                /\ Len(elast.data.declarations) = Len(ParsedBody)
                /\ \A k \in 1..Len(ParsedBody) :
                        elast.data.declarations[k].id = ParsedBody[k].id

\* Red, Green = 5, Blue has been parsed to 0, 5, 6
C4_Witness ==
    /\ ParsedSource
    /\ ParsedBody = <<ColorEnum>>
    /\ Len(elast.data.declarations) = 1
    /\ elast.data.declarations[1].members
        = <<[name |-> "Red", value |-> Num(0)], [name |-> "Green", value |-> Num(5)],
            [name |-> "Blue", value |-> Num(6)]>>

\* C16: enum inlining never aborts a module load: for every file path and
\* code, declaring files and code that do not parse or hold unsupported
\* initializers or unresolved references included, transformConstEnum
\* returns a result or undefined and never throws
C16_NeverThrows ==
    elast.op = "transform" =>
        /\ ~elast.threw
        /\ elast.result = None \/ elast.result.some

\* an error was raised inside the transform, and the call returned undefined
C16_Witness ==
    /\ elast.op = "transform"
    /\ elast.caught
    /\ ~elast.threw
    /\ elast.result = None

\* C17: transformConstEnum returns undefined exactly when nothing was
\* rewritten (the path is no JS/TS source, the code has no import, or no enum
\* reference matched); it returns { code, map } only if at least one
\* reference was rewritten, and then the code differs from the input
C17_NoneIffNothingRewritten ==
    elast.op = "transform" =>
        /\ elast.result = None <=>
                (~IsScript(elast.path) \/ ~HasImportText(elast.code) \/ ~elast.transformed)
        /\ elast.result.some =>
                (elast.transformed /\ elast.result.code # elast.code)

\* the full keys of the members that come before member i of node k of the
\* parsed file, in source order, in exported const enums
DefinedBefore(k, i) ==
    {FullKey(ParsedBody[j].id, ParsedBody[j].members[m].key) :
        <<j, m>> \in {x \in (1..k) \X (1..MaxMembers) :
                        /\ x[2] <= Len(ParsedBody[x[1]].members)
                        /\ ParsedBody[x[1]].exported /\ ParsedBody[x[1]].const
                        /\ x[1] < k \/ x[2] < i}}

\* the Enum.Member operands of an initializer that is a binary expression
References(init) ==
    IF init.type # "BinaryExpression" THEN {}
    ELSE {o.text : o \in {x \in {init.left, init.right} : x.type = "MemberExpression"}}

\* some binary expression of the parsed file refers to a member that is not
\* in defines where the expression stands
ForwardReference ==
    \E k \in 1..Len(ParsedBody) : \E i \in 1..Len(ParsedBody[k].members) :
        /\ ParsedBody[k].exported /\ ParsedBody[k].const
        /\ References(ParsedBody[k].members[i].init) \ DefinedBefore(k, i) # {}

\* the value of an operand, a reference read from the defines of the entry
OperandValue(o) ==
    IF o.type = "MemberExpression" THEN JsonParse(elast.data.defines[o.text]) ELSE o.value

\* left operator right over numbers
Arith(l, op, r) ==
    IF op = "+" THEN Num(l.n + r.n) ELSE IF op = "-" THEN Num(l.n - r.n) ELSE Num(l.n * r.n)

\* C22: a binary-expression initializer whose operand is an Enum.Member
\* reference not yet in the file's running defines makes extraction fail for
\* the whole file, leaving a cached empty entry (no declarations, no
\* defines); an operand that is already in defines evaluates to that
\* member's value.
C22_ForwardReferences ==
    ParsedSource =>
        /\ ForwardReference =>
                /\ elast.data = EmptyData
                /\ constEnumCache[elast.path] = EmptyData
        /\ \A d \in Range(elast.data.declarations) :
                \A i \in 1..Len(d.members) :
                    LET init == NodeOf(d.id).members[i].init
                    IN  (init.type = "BinaryExpression" /\ References(init) # {}) =>
                            /\ References(init) \subseteq DOMAIN elast.data.defines
                            /\ d.members[i].value
                                    = Arith(OperandValue(init.left), init.operator,
                                            OperandValue(init.right))

\* Flags, whose member C is Color.Red + 5, was parsed from a file declaring
\* Color after it, and the entry is empty
C22_Witness ==
    /\ ParsedSource
    /\ ParsedBody = <<FlagsEnum, ColorEnum>>
    /\ ForwardReference
    /\ elast.data = EmptyData
    /\ constEnumCache[elast.path] = EmptyData

\* Flags was parsed from a file declaring Color before it: Flags.B is
\* Flags.A + 1 and Flags.C is Color.Red + 5
ResolvedReference ==
    /\ ParsedSource
    /\ ParsedBody = <<ColorEnum, FlagsEnum>>
    /\ elast.data.defines["Flags.B"] = "2"
    /\ elast.data.defines["Flags.C"] = "5"

\* the whole-word occurrences in the text of the reference the specifier sp
\* makes to member m of declaration d: alias.Enum.Member for a namespace
\* import, localName.Member for a named import of d
OccurrencesOf(text, sp, d, m) ==
    IF sp.type = "ImportNamespaceSpecifier"
    THEN {[start |-> s, end |-> s + 5, value |-> m.value] :
            s \in {x \in 1..Len(text) :
                        MatchAt(text, x, <<sp.local, ".", d.id, ".", m.name>>)}}
    ELSE IF sp.type = "ImportSpecifier" /\ sp.imported = d.id
    THEN {[start |-> s, end |-> s + 3, value |-> m.value] :
            s \in {x \in 1..Len(text) : MatchAt(text, x, <<sp.local, ".", m.name>>)}}
    ELSE {}

\* the occurrences in the code of the last call, over its imports, the
\* declaring files of each and the entries the cache holds for them
Occurrences ==
    UNION {UNION {UNION {UNION {UNION {
        OccurrencesOf(elast.code.text, sp, d, m) :
            m \in Range(d.members)} :
            d \in Range(constEnumCache[f].declarations)} :
            sp \in Range(imp.specifiers)} :
            f \in Range(ResolveEnumPath(imp.source, enumFs)) \cap DOMAIN constEnumCache} :
            imp \in Range(elast.code.imports)}

\* the occurrences that lie in no longer one
Outermost ==
    {o \in Occurrences :
        \A p \in Occurrences :
            (p.start <= o.start /\ o.end <= p.end) => (p.start = o.start /\ p.end = o.end)}

\* the JSON literal of the value, then a comment holding the text matched
Annotated(value, matched) ==
    <<ValueToken(value), Punct(" "), Punct("/*"), Punct(" ")>>
    \o matched \o <<Punct(" "), Punct("*/")>>

\* out from token o on is text from token i on with every outermost
\* occurrence replaced by the literal of a member matched there and the
\* comment carrying the text matched, and every other token as it was
RECURSIVE Rewritten(_, _, _, _)
Rewritten(out, o, text, i) ==
    IF i > Len(text) THEN o = Len(out) + 1
    ELSE IF \E m \in Outermost : m.start = i
    THEN \E m \in {x \in Outermost : x.start = i} :
            LET rep == Annotated(m.value, SubSeq(text, m.start, m.end - 1))
            IN  /\ o + Len(rep) - 1 <= Len(out)
                /\ SubSeq(out, o, o + Len(rep) - 1) = rep
                /\ Rewritten(out, o + Len(rep), text, m.end)
    ELSE /\ o <= Len(out)
         /\ out[o] = text[i]
         /\ Rewritten(out, o + 1, text, i + 1)

\* C23: in the output of transformConstEnum every whole-word occurrence of
\* alias.Enum.Member (namespace import) or localName.Member (named import,
\* matched by imported name) in the original text is replaced by the JSON
\* literal of the member's value followed by a comment containing the
\* original expression text, and all text outside the matched ranges is
\* unchanged.
C23_RewriteShape ==
    (elast.op = "transform" /\ elast.result.some) =>
        /\ elast.result.code.imports = elast.code.imports
        /\ Rewritten(elast.result.code.text, 1, elast.code.text, 1)

\* v = K.Blue + Dir.Up with Color imported as K and Dir as Dir was rewritten
\* in both places, and v, = and + stand as they were
C23_Witness ==
    /\ elast.op = "transform"
    /\ elast.result.some
    /\ ~elast.fed
    /\ Cardinality(Outermost) = 2
    /\ elast.result.code.text[1] = Word("v")
    /\ \E k \in DOMAIN elast.result.code.text : elast.result.code.text[k] = Punct("+")

\* C14: the enum cache is compute-once and append-only: the first
\* parseConstEnumsFromAST call for a path stores an entry, an empty one for a
\* missing, non-TypeScript or unparsable file; every later call returns the
\* stored entry without going to the file; no entry is replaced or removed
C14_EnumCacheOnce ==
    [][/\ \A p \in DOMAIN constEnumCache :
            p \in DOMAIN constEnumCache' /\ constEnumCache'[p] = constEnumCache[p]
       /\ elast'.op = "parse" =>
            /\ elast'.path \in DOMAIN constEnumCache'
            /\ elast'.data = constEnumCache'[elast'.path]
            /\ elast'.computed <=> elast'.path \notin DOMAIN constEnumCache
            /\ (\/ ~enumFs[elast'.path].exists
                \/ ~IsTs(GetLang(elast'.path))
                \/ ~enumFs[elast'.path].syntaxOk) => elast'.data = EmptyData
      ]_vars

\* a later call for lib.ts returned the stored, non-empty entry
C14_Witness ==
    /\ elast.op = "parse"
    /\ ~elast.computed
    /\ elast.path = LibTs
    /\ elast.data # EmptyData
    /\ elast.data = constEnumCache[LibTs]

(***************************************************************************)
(* The dynamic matcher called on its own (the export dynamicPathsMatcher), *)
(* next to the hook and loadTsconfig.  Its call is logged as a "dynamic"   *)
(* event followed by one "access" event for every accessSync and one       *)
(* "parse" event for every parseTsconfig it made, ret naming the directory.*)
(***************************************************************************)
FsEvents(specifier, from, dirs, op) ==
    [i \in 1..Len(dirs) |->
        Event(op, specifier, from, <<>>,
              IF op = "access" THEN AccessSync(dirs[i]) ELSE ParseTsconfig(dirs[i]),
              <<dirs[i]>>)]

\* dynamicPathsMatcher(specifier, fromFile)
DynamicCall(specifier, from) ==
    /\ Idle
    /\ \E r \in {DynamicPathsMatcher(specifier, from, tsconfigCache, tsconfigPathsMatcher)} :
        /\ tsconfigCache' = r.cache
        /\ last' = [NoCall EXCEPT
                        !.op = "dynamic", !.request = specifier, !.parent = from,
                        !.static = tsconfigPathsMatcher,
                        !.calls = <<Event("dynamic", specifier, from, <<>>, ~r.threw, r.paths)>>
                                  \o FsEvents(specifier, from, r.probes, "access")
                                  \o FsEvents(specifier, from, r.parsed, "parse")]
    /\ UNCHANGED <<tsAt, files, fileMatcher, tsconfigPathsMatcher, allowJs, enumVars, asyncVars, ptyVars>>

InitDynamic ==
    /\ tsAt \in TsLayouts
    /\ files = {FileA1}
    /\ fileMatcher = NoMatcher
    /\ tsconfigPathsMatcher = NoMatcher
    /\ allowJs = FALSE
    /\ tsconfigCache = [d \in {} |-> NullEntry]
    /\ last = NoCall
    /\ enumFs = Disk(Missing, Missing)
    /\ constEnumCache = NoEnumCache
    /\ elast = NoEnumCall
    /\ AsyncAtRest
    /\ PtyAtRest

NextDynamic ==
    \/ Return
    \/ \E dir \in ConfigDirs : LoadTsconfig(TRUE, dir)
    \/ LoadTsconfig(FALSE, Root)
    \/ \E s \in {ReqAliasA, ReqAliasB, ReqPkg}, p \in Parents \cup {Parent(FileTop)} :
            DynamicCall(s, p)
    \/ \E r \in {ReqAliasA, ReqRel}, p \in {Parent(FileATs), Parent(FileBTs)} :
            Resolve(TRUE, NoNamespace, r, p, <<>>)

SpecDynamic == InitDynamic /\ [][NextDynamic]_vars

(***************************************************************************)
(* Properties of the dynamic matcher.                                      *)
(***************************************************************************)
AccessEvents == Select(last.calls, "access")
ParseEvents == Select(last.calls, "parse")

\* the last call was dynamicPathsMatcher(specifier, fromFile) with a fromFile
DynamicFrom == last.op = "dynamic" /\ last.parent.has
SearchDir == Dirname(last.parent.filename)

\* C11: once tsconfigCache holds an entry for a directory no operation
\* changes or removes it, and a dynamicPathsMatcher call from a file in that
\* directory answers from the entry without accessing or parsing any file
C11_CacheStability ==
    [][/\ \A d \in DOMAIN tsconfigCache :
            d \in DOMAIN tsconfigCache' /\ tsconfigCache'[d] = tsconfigCache[d]
       /\ (DynamicFrom' /\ SearchDir' \in DOMAIN tsconfigCache) =>
            /\ Len(last'.calls) = 1
            /\ last'.calls[1].ok
            /\ last'.calls[1].ret = ApplyPaths(tsconfigCache[SearchDir'].paths, last'.request)
      ]_vars

\* a call from a directory whose entry holds a matcher was answered from the cache
C11_Witness ==
    /\ DynamicFrom
    /\ Len(last.calls) = 1
    /\ SearchDir \in DOMAIN tsconfigCache
    /\ tsconfigCache[SearchDir].paths.def
    /\ last.calls[1].ret # <<>>

\* C12: a dynamicPathsMatcher call from directory d that misses the cache adds
\* exactly the key d; no ancestor visited by the walk gets an entry and the
\* entries of all other directories stay as they were
C12_CacheFrame ==
    [][(DynamicFrom' /\ SearchDir' \notin DOMAIN tsconfigCache) =>
            /\ DOMAIN tsconfigCache' = DOMAIN tsconfigCache \cup {SearchDir'}
            /\ \A d \in DOMAIN tsconfigCache : tsconfigCache'[d] = tsconfigCache[d]
      ]_vars

\* a miss whose walk went up to an ancestor directory and found its configuration
C12_Witness ==
    /\ DynamicFrom
    /\ \E i \in DOMAIN AccessEvents :
            /\ AccessEvents[i].ok
            /\ AccessEvents[i].ret # <<SearchDir>>
            /\ AccessEvents[i].ret[1] \notin DOMAIN tsconfigCache
    /\ SearchDir \in DOMAIN tsconfigCache

\* an access to a configuration file that is there failed, or a parse failed
AccessOrParseError ==
    \/ \E i \in DOMAIN AccessEvents :
            ~AccessEvents[i].ok /\ TsKindAt(AccessEvents[i].ret[1]) # "none"
    \/ \E i \in DOMAIN ParseEvents : ~ParseEvents[i].ok

\* C13: dynamicPathsMatcher never throws; on any access or parse error while
\* locating or loading the nearest configuration it stores the null sentinel
\* for the starting directory and returns an empty candidate list
C13_NeverThrows ==
    DynamicFrom =>
        /\ last.calls[1].ok
        /\ AccessOrParseError =>
                /\ SearchDir \in DOMAIN tsconfigCache
                /\ tsconfigCache[SearchDir] = NullEntry
                /\ last.calls[1].ret = <<>>

\* dir and its parents in order, the root left out
RECURSIVE Ancestors(_)
Ancestors(dir) ==
    IF dir = Dirname(dir) THEN <<>> ELSE <<dir>> \o Ancestors(Dirname(dir))

\* the first directory of the chain whose tsconfig.json the probe finds; the
\* chain has one
Nearest(chain) ==
    chain[CHOOSE i \in DOMAIN chain :
            AccessSync(chain[i]) /\ \A j \in 1..(i - 1) : ~AccessSync(chain[j])]

\* the entry built from the configuration of directory d
EntryOf(d) ==
    IF ParseTsconfig(d) /\ CreatePathsMatcher(d, TsKindAt(d)).def
    THEN [paths |-> CreatePathsMatcher(d, TsKindAt(d)), allowJs |-> CfgAllowJs(TsKindAt(d))]
    ELSE NullEntry

\* the call l probed the chain in order up to the nearest configuration, and
\* cached and applied the matcher of that configuration and of no other
NearestWins(l, cache) ==
    LET searchDir == Dirname(l.parent.filename)
        chain == Ancestors(searchDir)
        access == Select(l.calls, "access")
        parse == Select(l.calls, "parse")
    IN  /\ \A i \in DOMAIN access : access[i].ret = <<chain[i]>>
        /\ IF \A i \in DOMAIN chain : ~AccessSync(chain[i])
           THEN /\ Len(access) = Len(chain)
                /\ Len(parse) = 0
                /\ cache[searchDir] = NullEntry
                /\ l.calls[1].ret = <<>>
           ELSE /\ access[Len(access)].ret = <<Nearest(chain)>>
                /\ Len(parse) = 1
                /\ parse[1].ret = <<Nearest(chain)>>
                /\ cache[searchDir] = EntryOf(Nearest(chain))
                /\ l.calls[1].ret = ApplyPaths(EntryOf(Nearest(chain)).paths, l.request)

Uncached(specifier, dir) ==
    IF \A i \in DOMAIN Ancestors(dir) : ~AccessSync(Ancestors(dir)[i]) THEN <<>>
    ELSE ApplyPaths(EntryOf(Nearest(Ancestors(dir))).paths, specifier)

\* C24: cache transparency: with an unchanging file system,
\* dynamicPathsMatcher(specifier, fromFile) returns, after any sequence of
\* earlier calls from any directories, the candidate list an uncached
\* walk-parse-match from dirname(fromFile) returns.
C24_CacheTransparency ==
    \A i \in DOMAIN last.calls :
        (last.calls[i].op = "dynamic" /\ Len(last.calls[i].from) > 0) =>
            last.calls[i].ret = Uncached(last.calls[i].req, Dirname(last.calls[i].from))

\* a call answered from the cache with candidates, after calls from other
\* directories had filled the cache as well
C24_Witness ==
    /\ DynamicFrom
    /\ Len(last.calls) = 1
    /\ last.calls[1].ret # <<>>
    /\ Cardinality(DOMAIN tsconfigCache) >= 3
    /\ \E d \in DOMAIN tsconfigCache : tsconfigCache[d] # tsconfigCache[SearchDir]

\* the nearest configuration above the starting directory of the last call
\* parses and maps no paths
NearestHasNoPaths ==
    /\ DynamicFrom
    /\ \E i \in DOMAIN Ancestors(SearchDir) : AccessSync(Ancestors(SearchDir)[i])
    /\ ParseTsconfig(Nearest(Ancestors(SearchDir)))
    /\ Len(PathsOf(TsKindAt(Nearest(Ancestors(SearchDir))))) = 0

\* C25: a nearest tsconfig.json that defines no paths mapping ends the
\* search: the dynamic matcher caches the null sentinel for the starting
\* directory, returns no candidates, and does not go on upward to an
\* ancestor configuration that does define paths.
C25_NoPathsEndsSearch ==
    NearestHasNoPaths =>
        /\ tsconfigCache[SearchDir] = NullEntry
        /\ last.calls[1].ret = <<>>
        /\ \A i \in DOMAIN AccessEvents :
                Len(AccessEvents[i].ret[1]) >= Len(Nearest(Ancestors(SearchDir)))
        /\ \A i \in DOMAIN ParseEvents :
                ParseEvents[i].ret = <<Nearest(Ancestors(SearchDir))>>

\* a miss from package B, whose configuration maps no paths, for a specifier
\* the configuration of package A above it maps
C25_Witness ==
    /\ NearestHasNoPaths
    /\ Len(ParseEvents) = 1
    /\ Nearest(Ancestors(SearchDir)) = DirB
    /\ AccessSync(DirA)
    /\ ApplyPaths(CreatePathsMatcher(DirA, TsKindAt(DirA)), last.request) # <<>>
    /\ last.calls[1].ret = <<>>

\* C26: the upward configuration walk always terminates: for every
\* requesting file it makes at most one existence probe per ancestor
\* directory, each step moves to a strictly shorter parent, and it stops at
\* the first hit or when the root is reached; the root is not probed.
C26_WalkTerminates ==
    DynamicFrom =>
        /\ Len(AccessEvents) <= Len(SearchDir)
        /\ \A i \in DOMAIN AccessEvents : AccessEvents[i].ret[1] # Root
        /\ \A i, j \in DOMAIN AccessEvents :
                AccessEvents[i].ret = AccessEvents[j].ret => i = j
        /\ Len(AccessEvents) > 0 => AccessEvents[1].ret = <<SearchDir>>
        /\ \A i \in 2..Len(AccessEvents) :
                /\ AccessEvents[i].ret[1] = Dirname(AccessEvents[i - 1].ret[1])
                /\ Len(AccessEvents[i].ret[1]) < Len(AccessEvents[i - 1].ret[1])
        /\ \A i \in 1..(Len(AccessEvents) - 1) : ~AccessEvents[i].ok
        /\ (Len(AccessEvents) > 0 /\ ~AccessEvents[Len(AccessEvents)].ok) =>
                Dirname(AccessEvents[Len(AccessEvents)].ret[1]) = Root

\* a walk from three directories deep that found nothing: three probes, the
\* last one in the directory just below the root
C26_Witness ==
    /\ DynamicFrom
    /\ Len(SearchDir) = 3
    /\ Len(AccessEvents) = 3
    /\ \A i \in DOMAIN AccessEvents : ~AccessEvents[i].ok
    /\ Len(AccessEvents[3].ret[1]) = 1
    /\ tsconfigCache[SearchDir] = NullEntry

\* a call from a file in the root directory: no probe at all
WalkFromRoot ==
    /\ DynamicFrom
    /\ SearchDir = Root
    /\ Len(last.calls) = 1
    /\ tsconfigCache[Root] = NullEntry

(***************************************************************************)
(* The state machine of concurrent getEnumsFromTypeFile calls: a call runs *)
(* to its await in one turn and from the settled read to its return in     *)
(* another, and turns of different calls interleave freely.                *)
(***************************************************************************)
\* the call starts: the cache check, and on a miss the read is issued
Begin(c, typeFilePath) ==
    /\ lookups[c].pc = "idle"
    /\ IF typeFilePath \in DOMAIN enumCache
       THEN /\ lookups' = [lookups EXCEPT
                            ![c] = Lookup("done", typeFilePath, FALSE, enumCache[typeFilePath])]
            /\ UNCHANGED enumCache
       ELSE /\ lookups' = [lookups EXCEPT ![c] = Lookup("reading", typeFilePath, TRUE, NoEnums)]
            /\ enumCache' = CacheBeforeAwait(enumCache, typeFilePath)
    /\ UNCHANGED <<resolutionVars, enumVars, ptyVars>>

\* the read settles: parseEnums, enumCache.set and return, or the catch
Settle(c) ==
    /\ lookups[c].pc = "reading"
    /\ \E enums \in {ReadAndParse(enumFs, lookups[c].path)} :
        /\ enumCache' = MapSet(enumCache, lookups[c].path, enums)
        /\ lookups' = [lookups EXCEPT ![c] = Lookup("done", lookups[c].path, TRUE, enums)]
    /\ UNCHANGED <<resolutionVars, enumVars, ptyVars>>

\* the caller takes the entry
Taken(c) ==
    /\ lookups[c].pc = "done"
    /\ lookups' = [lookups EXCEPT ![c] = NoLookup]
    /\ UNCHANGED <<enumCache, resolutionVars, enumVars, ptyVars>>

\* clearConstEnumCacheV5()
ClearCache ==
    /\ enumCache # [p \in {} |-> NoEnums]
    /\ enumCache' = [p \in {} |-> NoEnums]
    /\ UNCHANGED <<lookups, resolutionVars, enumVars, ptyVars>>

InitAsync ==
    /\ ResolutionAtRest
    /\ enumFs \in {Disk(f, d) : f \in {Missing},
                                d \in {Missing, Broken} \cup {Source(b) : b \in SampleBodies}}
    /\ constEnumCache = NoEnumCache
    /\ elast = NoEnumCall
    /\ AsyncAtRest
    /\ PtyAtRest

NextAsync ==
    \/ \E c \in Callers, p \in {LibDts, LibTs} : Begin(c, p)
    \/ \E c \in Callers : Settle(c)
    \/ \E c \in Callers : Taken(c)
    \/ ClearCache

SpecAsync == InitAsync /\ [][NextAsync]_vars

\* the entry of a file: every const enum of it with every member, each
\* with a value, and nothing else
CompleteEntry(entry, typeFilePath) ==
    LET body == IF ExistsSync(enumFs, typeFilePath) THEN enumFs[typeFilePath].body ELSE <<>>
        nodes == {body[k] : k \in {j \in 1..Len(body) : body[j].const}}
    IN  /\ DOMAIN entry = {n.id : n \in nodes}
        /\ \A n \in nodes :
                /\ DOMAIN entry[n.id] = {n.members[i].key : i \in 1..Len(n.members)}
                /\ \A key \in DOMAIN entry[n.id] : entry[n.id][key].t \in {"number", "string"}

\* C15: concurrent lookups of the same key are safe: each in-flight lookup
\* of a file returns a complete entry, two lookups of the same unchanged file
\* return and write equal entries, and the cache never holds a partially
\* built entry
C15_ConcurrentLookups ==
    /\ \A p \in DOMAIN enumCache : CompleteEntry(enumCache[p], p)
    /\ \A c \in Callers :
            lookups[c].pc = "done" => CompleteEntry(lookups[c].result, lookups[c].path)
    /\ \A c, d \in Callers :
            (lookups[c].pc = "done" /\ lookups[d].pc = "done"
             /\ lookups[c].path = lookups[d].path) => lookups[c].result = lookups[d].result
    /\ \A c \in Callers :
            (lookups[c].pc = "done" /\ lookups[c].path \in DOMAIN enumCache) =>
                enumCache[lookups[c].path] = lookups[c].result

\* two lookups of the same file overlapped: both missed, both read and parsed
\* it, and both returned its enums
C15_Witness ==
    /\ lookups[1].pc = "done" /\ lookups[2].pc = "done"
    /\ lookups[1].missed /\ lookups[2].missed
    /\ lookups[1].path = LibDts /\ lookups[2].path = LibDts
    /\ lookups[1].result # NoEnums
    /\ lookups[1].result = lookups[2].result

(***************************************************************************)
(* The state machine of ptyShell: the child's stdout arrives in chunks of  *)
(* any length, and the test registers its waiters at any time between two  *)
(* chunks.                                                                 *)
(***************************************************************************)
\* what the child writes to stdout
Stdouts ==
    {<<"a", LF, "b", LF>>,
     <<"a", CR, LF, "a">>,
     <<LeadByte, ContinuationByte, LF, "a", LF>>,
     <<Esc, "b", LF, "$", " ">>,
     <<"b", LF, LF, "a", LF>>}

\* stdout emits 'data' with the next n bytes
Data(n) ==
    /\ n \in 1..Len(pty.pending)
    /\ \E st \in {OnData(pty, SubSeq(pty.pending, 1, n))} :
        pty' = [st EXCEPT !.pending = SubSeq(pty.pending, n + 1, Len(pty.pending)),
                          !.sent = pty.sent \o SubSeq(pty.pending, 1, n)]
    /\ UNCHANGED <<resolutionVars, enumVars, asyncVars>>

\* waitForLine(pattern), called by waiter w
WaitForLine(w, pattern) ==
    /\ pty.registered[w] = NotRegistered
    /\ pty' = [pty EXCEPT
                !.lineMap = LineMapSet(pty.lineMap, pattern, w),
                !.registered[w] = [pattern |-> pattern, at |-> Len(pty.lines)]]
    /\ UNCHANGED <<resolutionVars, enumVars, asyncVars>>

\* waitForPrompt()
WaitForPrompt ==
    /\ ~pty.promptDeferred
    /\ pty.prompts = 0
    /\ pty' = [pty EXCEPT !.promptDeferred = TRUE]
    /\ UNCHANGED <<resolutionVars, enumVars, asyncVars>>

InitPty ==
    /\ ResolutionAtRest
    /\ enumFs = Disk(Missing, Missing)
    /\ constEnumCache = NoEnumCache
    /\ elast = NoEnumCall
    /\ AsyncAtRest
    /\ pty \in {PtyStart(stdout) : stdout \in Stdouts}

NextPty ==
    \/ \E n \in 1..5 : Data(n)
    \/ \E w \in Waiters, pattern \in Patterns : WaitForLine(w, pattern)
    \/ WaitForPrompt

SpecPty == InitPty /\ [][NextPty]_vars

\* the newline-terminated lines of a string from character i on, cur being
\* the line begun, each without its \r and its escape codes
RECURSIVE LinesOf(_, _, _)
LinesOf(s, i, cur) ==
    IF i > Len(s) THEN <<>>
    ELSE IF s[i] = LF THEN <<StripAnsi(StripCR(cur))>> \o LinesOf(s, i + 1, <<>>)
    ELSE LinesOf(s, i + 1, Append(cur, s[i]))

\* the lines after line k that match the pattern
LaterMatches(pattern, k) ==
    {i \in (k + 1)..Len(pty.lines) : Test(pattern, pty.lines[i])}

\* C27: for any split of the child's stdout into chunks, onLine is called
\* exactly once per newline-terminated line, in stream order, with content
\* independent of the chunk boundaries; a waiter registered by waitForLine
\* is resolved by the first later line matching its pattern and is then
\* removed, so it is resolved at most once.
C27_LineDelivery ==
    /\ pty.lines = LinesOf(ChunkToString(pty.sent, 1), 1, <<>>)
    /\ \A w \in Waiters :
            pty.registered[w] # NotRegistered =>
                LET later == LaterMatches(pty.registered[w].pattern, pty.registered[w].at)
                IN  IF later = {} THEN pty.resolved[w] = <<>>
                    ELSE /\ pty.resolved[w]
                                = <<pty.lines[CHOOSE i \in later : \A j \in later : i <= j]>>
                         /\ \A k \in DOMAIN pty.lineMap : pty.lineMap[k].waiter # w

====
